---- MODULE Spec2Model ----
(***************************************************************************)
(* A model of the fuzzy-time-series core of pyFTS: the even-length grid    *)
(* partitioner (partitioners/Grid.py) and the high-order non-stationary    *)
(* model (models/nonstationary/honsfts.py).                                *)
(*                                                                         *)
(* Numbers.  Values of the universe of discourse, set parameters,          *)
(* membership degrees and forecasts are exact rationals <<n, d>> in lowest *)
(* terms.  The one place where the rounding of Python's floats decides a   *)
(* result that is not a number, the length of np.arange, is computed in    *)
(* IEEE-754 double arithmetic (53-bit significands, round to nearest,      *)
(* ties to even) over big naturals.                                        *)
(***************************************************************************)
EXTENDS Integers, Sequences, FiniteSets, TLC

(***************************************************************************)
(* Rational arithmetic: <<n, d>> with d > 0 and gcd(n, d) = 1.             *)
(***************************************************************************)
RECURSIVE Gcd(_, _)
Gcd(a, b) == IF b = 0 THEN a ELSE Gcd(b, a % b)

Abs(a) == IF a < 0 THEN -a ELSE a

Rat(n, d) ==
    LET s == IF d < 0 THEN -1 ELSE 1
        g == Gcd(Abs(n), Abs(d))
    IN  <<(s * n) \div g, (s * d) \div g>>

RInt(n) == <<n, 1>>

RAdd(a, b) == Rat(a[1] * b[2] + b[1] * a[2], a[2] * b[2])

RSub(a, b) == Rat(a[1] * b[2] - b[1] * a[2], a[2] * b[2])

RMul(a, b) == Rat(a[1] * b[1], a[2] * b[2])

RDiv(a, b) == Rat(a[1] * b[2], a[2] * b[1])

RLt(a, b) == a[1] * b[2] < b[1] * a[2]

RLe(a, b) == a[1] * b[2] <= b[1] * a[2]

RZero == RInt(0)

ROne == RInt(1)

(***************************************************************************)
(* Big naturals: NLimbs digits in base BigBase, least significant first.   *)
(***************************************************************************)
BigBase == 8192

NLimbs == 10

RECURSIVE Pow2(_)
Pow2(t) == IF t = 0 THEN 1 ELSE 2 * Pow2(t - 1)

BigOfInt(n) ==
    [i \in 1..NLimbs |->
        CASE i = 1 -> n % BigBase
          [] i = 2 -> (n \div BigBase) % BigBase
          [] i = 3 -> n \div (BigBase * BigBase)
          [] OTHER -> 0]

RECURSIVE BigMulCarry(_, _, _, _)
BigMulCarry(a, k, i, c) ==
    IF i > NLimbs THEN <<>>
    ELSE LET v == a[i] * k + c
         IN  <<v % BigBase>> \o BigMulCarry(a, k, i + 1, v \div BigBase)

BigMulSmall(a, k) == BigMulCarry(a, k, 1, 0)

RECURSIVE BigAddCarry(_, _, _, _)
BigAddCarry(a, b, i, c) ==
    IF i > NLimbs THEN <<>>
    ELSE LET v == a[i] + b[i] + c
         IN  <<v % BigBase>> \o BigAddCarry(a, b, i + 1, v \div BigBase)

BigAdd(a, b) == BigAddCarry(a, b, 1, 0)

RECURSIVE BigShl(_, _)
BigShl(a, t) ==
    IF t = 0 THEN a
    ELSE IF t >= 13 THEN BigShl(BigMulSmall(a, BigBase), t - 13)
    ELSE BigMulSmall(a, Pow2(t))

RECURSIVE BigLeFrom(_, _, _)
BigLeFrom(a, b, i) ==
    IF i = 0 THEN TRUE
    ELSE IF a[i] # b[i] THEN a[i] < b[i]
    ELSE BigLeFrom(a, b, i - 1)

BigLe(a, b) == BigLeFrom(a, b, NLimbs)

(***************************************************************************)
(* IEEE-754 doubles.  A positive double is [m, s]: the value m / 2^s with  *)
(* m a significand of MantBits bits.                                       *)
(***************************************************************************)
MantBits == 53

\* floor(log2(n)) for an integer n >= 1
RECURSIVE Log2Floor(_)
Log2Floor(n) == IF n < 2 THEN 0 ELSE 1 + Log2Floor(n \div 2)

\* the e with 2^e <= d/p < 2^(e+1), for integers d, p >= 1
RECURSIVE ExpUp(_, _)
ExpUp(d, p) == IF 2 * p <= d THEN 1 + ExpUp(d, 2 * p) ELSE 0

RECURSIVE ExpDown(_, _)
ExpDown(d, p) == IF d < p THEN 1 + ExpDown(2 * d, p) ELSE 0

Exponent(d, p) == IF d >= p THEN ExpUp(d, p) ELSE -ExpDown(d, p)

\* Long division of r/den < 1 in base BigBase: <<the next `left` digits of
\* the quotient, most significant first; the remainder after them>>.
RECURSIVE LongDiv(_, _, _)
LongDiv(r, den, left) ==
    IF left = 0 THEN <<<<>>, r>>
    ELSE LET v    == r * BigBase
             rest == LongDiv(v % den, den, left - 1)
         IN  <<<<v \div den>> \o rest[1], rest[2]>>

\* the digits of a significand below its leading bit
FracLimbs == (MantBits - 1) \div Log2Floor(BigBase)

\* fl(d / p): the double nearest d/p (ties to even), for integers d, p >= 1.
\* d/p = (num/den) * 2^e with num/den in [1, 2); the significand is the
\* leading 1 and the first FracLimbs digits of num/den - 1, rounded on the
\* remainder.
FloatDiv(d, p) ==
    LET e   == Exponent(d, p)
        num == IF e < 0 THEN d * Pow2(-e) ELSE d
        den == IF e > 0 THEN p * Pow2(e) ELSE p
        q   == LongDiv(num - den, den, FracLimbs)
        up  == 2 * q[2] > den \/ (2 * q[2] = den /\ q[1][FracLimbs] % 2 = 1)
        m   == [i \in 1..NLimbs |->
                  IF i <= FracLimbs THEN q[1][FracLimbs + 1 - i]
                  ELSE IF i = FracLimbs + 1 THEN 1 ELSE 0]
    IN  [m |-> IF up THEN BigAdd(m, BigOfInt(1)) ELSE m,
         s |-> (MantBits - 1) - e]

\* fl(d / q) <= n, for integers d, n >= 1 and a double q.  Rounding is
\* monotone and n is a double, so fl(d/q) <= n exactly when d/q is at most
\* n plus half the gap to the next double above n (a tie goes to n, whose
\* significand is even): d * 2^(s+h) <= m * (n * 2^h + 1),
\* h = MantBits - floor(log2 n).
FloatQuotLe(d, q, n) ==
    LET h == MantBits - Log2Floor(n)
    IN  BigLe(BigShl(BigOfInt(d), q.s + h),
              BigAdd(BigShl(BigMulSmall(q.m, n), h), q.m))

\* ceil(fl(d / q)): the least integer n with fl(d / q) <= n
RECURSIVE CeilFloatQuot(_, _, _)
CeilFloatQuot(d, q, n) ==
    IF FloatQuotLe(d, q, n) THEN n ELSE CeilFloatQuot(d, q, n + 1)

\* len(np.arange(start, stop, step)) = ceil(fl((stop - start) / step)) for
\* integers start < stop and the double step = fl((stop - start) / p).
ArangeLen(start, stop, p) ==
    CeilFloatQuot(stop - start, FloatDiv(stop - start, p), 1)

(***************************************************************************)
(* Membership functions (spec section 4.1) and fuzzy sets.                 *)
(***************************************************************************)
\* Triangular(x, [a, b, c]): 0 outside [a, c], ramp up to 1 at b, ramp down.
trimf(v, parameters) ==
    LET a == parameters[1]
        b == parameters[2]
        c == parameters[3]
    IN  IF RLt(v, a) \/ RLt(c, v) THEN RZero
        ELSE IF RLt(v, b) THEN RDiv(RSub(v, a), RSub(b, a))
        ELSE RDiv(RSub(c, v), RSub(c, b))

\* Trapezoidal(x, [a, b, c, d]): 0 outside [a, d], 1 on [b, c], ramps between.
trapmf(v, parameters) ==
    LET a == parameters[1]
        b == parameters[2]
        c == parameters[3]
        d == parameters[4]
    IN  IF RLt(v, a) \/ RLt(d, v) THEN RZero
        ELSE IF RLt(v, b) THEN RDiv(RSub(v, a), RSub(b, a))
        ELSE IF RLe(v, c) THEN ROne
        ELSE RDiv(RSub(d, v), RSub(d, c))

\* FuzzySet.FuzzySet(name, mf, parameters, centroid)
FuzzySet(name, mf, parameters, centroid) ==
    [name |-> name, mf |-> mf, parameters |-> parameters, centroid |-> centroid]

(***************************************************************************)
(* GridPartitioner.build                                                   *)
(***************************************************************************)
SupportedMF == {"trimf", "gaussmf", "trapmf"}

\* Grid.py line 26: partlen = dlen / self.partitions
PartLen(lo, hi, npart) == RDiv(RSub(hi, lo), RInt(npart))

\* a triangular set that reaches only half-way to its neighbours' centres
TrimfSet_narrow(name, c, partlen) ==
    FuzzySet(name, "trimf",
             <<RSub(c, RDiv(partlen, RInt(2))), c, RAdd(c, RDiv(partlen, RInt(2)))>>, c)

\* Grid.py line 32: the triangular set centred at c
TrimfSet(name, c, partlen) ==
    FuzzySet(name, "trimf", <<RSub(c, partlen), c, RAdd(c, partlen)>>, c)

\* Grid.py line 34: the Gaussian set centred at c
GaussmfSet(name, c, partlen) ==
    FuzzySet(name, "gaussmf", <<c, RDiv(partlen, RInt(3))>>, c)

\* Grid.py lines 36-37: the trapezoidal set centred at c
TrapmfSet(name, c, partlen) ==
    LET q == RDiv(partlen, RInt(2))
    IN  FuzzySet(name, "trapmf",
                 <<RSub(c, partlen), RSub(c, q), RAdd(c, q), RAdd(c, partlen)>>, c)

\* Grid.py line 29: the number of values of np.arange(self.min, self.max, partlen)
GridCount(lo, hi, npart) == ArangeLen(lo[1], hi[1], npart)

\* Grid.py lines 28-38: the sets emitted, in emission order; set number
\* `count` (from 0) is named get_name(count) and centred at the count-th value
\* of np.arange, lo + count * partlen.  A membership function that is none of
\* the three stores no set.
GridSets(lo, hi, npart, mf) ==
    LET partlen == PartLen(lo, hi, npart)
        centre(count) == RAdd(lo, RMul(RInt(count), partlen))
    IN  IF mf \notin SupportedMF THEN <<>>
        ELSE [i \in 1..GridCount(lo, hi, npart) |->
                CASE mf = "trimf"   -> TrimfSet(i - 1, centre(i - 1), partlen)
                  [] mf = "gaussmf" -> GaussmfSet(i - 1, centre(i - 1), partlen)
                  [] mf = "trapmf"  -> TrapmfSet(i - 1, centre(i - 1), partlen)]

\* build without the shift of self.min
ShiftedMin_unshifted(lo, partlen) == lo

\* Grid.py line 40: self.min = self.min - partlen
ShiftedMin(lo, partlen) == RSub(lo, partlen)

(***************************************************************************)
(* State.                                                                  *)
(***************************************************************************)
VARIABLES
    data_min,             \* observed minimum of the data given to the partitioner
    data_max,             \* observed maximum
    min,                  \* partitioner.min
    max,                  \* partitioner.max
    partitions,           \* partitioner.partitions
    membership_function,  \* partitioner.membership_function
    sets,                 \* partitioner.sets, in ordered_sets order
    built,                \* whether build has run
    drift,                \* displacement of every set per unit of time
    order,                \* model.order
    flrgs,                \* model.flrgs: key -> [LHS, RHS]
    pc,                   \* "idle", or the operation in progress, or "done"
    op,                   \* the operation called last
    data,                 \* the series passed to the operation
    k,                    \* the loop index of the operation
    ret,                  \* the list the operation returns
    trains,               \* train calls made so far
    flrgs0,               \* the rule table when the current train was called
    fresh,                \* the rule table of a freshly constructed model
                          \* trained by the same call
    todo,                 \* generate_flrg: the statements of lines 79-83 left
                          \* to run in the current iteration
    readers,              \* the forecast calls of other threads: thread ->
                          \* [pc, op, data, k, ret, obs]
    obj,                  \* the fields of the object of the other classes
                          \* (wrappers, benchmarks, hyperparameter search)
                          \* an operation is called on
    frame,                \* that call: its arguments, locals and position
    result                \* what the call returned or raised

pvars == <<data_min, data_max, min, max, partitions, membership_function, sets, built>>

mvars == <<drift, order, flrgs, pc, op, data, k, ret, trains, flrgs0, fresh>>

\* the threads that share the model
cvars == <<todo, readers>>

\* the state of everything but the partitioner and the model
\* an object of another class and the call in progress on it
bvars == <<obj, frame, result>>

xvars == <<cvars, bvars>>

vars == <<pvars, mvars, xvars>>

\* no other thread, nothing else in progress
NoObject == [class |-> "none"]

NoFrame == [pc |-> "idle"]

NoResult == [kind |-> "none"]

\* no object of another class
BIdle ==
    /\ obj = NoObject
    /\ frame = NoFrame
    /\ result = NoResult

XIdle ==
    /\ todo = <<>>
    /\ readers = <<>>
    /\ BIdle

(***************************************************************************)
(* Non-stationary fuzzy sets: at time displacement t every parameter of a  *)
(* set, and its centroid, is shifted by drift * t.                         *)
(***************************************************************************)
\* common.window_index(t, window_size)
window_index(t, window_size) == t - (t % window_size)

Shift(t) == RMul(drift, RInt(t))

\* FuzzySet.membership(x, t)
membership(set, v, t) ==
    LET u == RSub(v, Shift(t))
    IN  CASE set.mf = "trimf"  -> trimf(u, set.parameters)
          [] set.mf = "trapmf" -> trapmf(u, set.parameters)

\* FuzzySet.get_midpoint(t), get_lower(t), get_upper(t)
set_midpoint(set, t) == RAdd(set.centroid, Shift(t))

set_lower(set, t) == RAdd(set.parameters[1], Shift(t))

set_upper(set, t) == RAdd(set.parameters[Len(set.parameters)], Shift(t))

\* ascending sequence of a finite set of integers
RECURSIVE SeqOfSet(_)
SeqOfSet(S) ==
    IF S = {} THEN <<>>
    ELSE LET m == CHOOSE e \in S : \A f \in S : e <= f
         IN  <<m>> \o SeqOfSet(S \ {m})

\* honsfts.py lines 49-50, 59-60, 109-110: the sets, in ordered_sets order,
\* in which v has a membership > 0.0 (as indices into ordered_sets)
Fuzzify(v, t) ==
    {i \in 1..Len(sets) : RLt(RZero, membership(sets[i], v, t))}

\* common.check_bounds_index: the first set when v is below every centroid,
\* the last set otherwise
check_bounds_index(v, t) ==
    IF RLt(v, set_midpoint(sets[1], t)) THEN 1 ELSE Len(sets)

\* fuzzification without the fallback
Candidates_nofallback(v, t) == SeqOfSet(Fuzzify(v, t))

\* honsfts.py lines 52-53, 62-63, 112-113: the fallback for an empty list
Candidates(v, t) ==
    IF Fuzzify(v, t) = {} THEN <<check_bounds_index(v, t)>>
    ELSE SeqOfSet(Fuzzify(v, t))

(***************************************************************************)
(* tree.build_tree_without_order / root.paths(): every way of choosing one *)
(* candidate per lag, as sequences in lag order.                           *)
(***************************************************************************)
RECURSIVE Paths(_)
Paths(lags) ==
    IF lags = <<>> THEN <<<<>>>>
    ELSE LET tails == Paths(Tail(lags))
             ext(c) == [j \in 1..Len(tails) |-> <<c>> \o tails[j]]
             RECURSIVE cat(_)
             cat(i) == IF i > Len(Head(lags)) THEN <<>>
                       ELSE ext(Head(lags)[i]) \o cat(i + 1)
         IN  cat(1)

(***************************************************************************)
(* HighOrderNonStationaryFLRG                                              *)
(***************************************************************************)
\* FLRG.get_key(): the names of the LHS sets, sorted.  (A rule holds its sets
\* as their positions in ordered_sets, which sort as their names do.)
get_key(LHS) == SortSeq(LHS, LAMBDA a, b : a < b)

\* the rule HighOrderNonStationaryFLRG(order) after append_lhs of a path
NewFLRG(path) == [LHS |-> path, RHS |-> {}]

\* append_rhs that replaces the RHS instead of adding to it
append_rhs_overwrite(rule, c) == [rule EXCEPT !.RHS = {c}]

\* append_rhs (honsfts.py lines 15-17)
append_rhs(rule, c) ==
    IF c \in rule.RHS THEN rule ELSE [rule EXCEPT !.RHS = @ \cup {c}]

RECURSIVE RSum(_)
RSum(q) == IF q = <<>> THEN RZero ELSE RAdd(Head(q), RSum(Tail(q)))

\* the bound of a set that `what` names: its midpoint, lower or upper bound
set_value(set, what, t) ==
    CASE what = "midpoint" -> set_midpoint(set, t)
      [] what = "lower"    -> set_lower(set, t)
      [] what = "upper"    -> set_upper(set, t)

\* the unweighted mean over the RHS sets of the bound `what` names
RhsMean(rule, what, t) ==
    LET r == SeqOfSet(rule.RHS)
    IN  RDiv(RSum([i \in 1..Len(r) |-> set_value(sets[r[i]], what, t)]),
             RInt(Len(r)))

\* NonStationaryFLRG.get_midpoint(t), get_lower(t), get_upper(t)
flrg_midpoint(rule, t) == RhsMean(rule, "midpoint", t)

flrg_lower(rule, t) == RhsMean(rule, "lower", t)

flrg_upper(rule, t) == RhsMean(rule, "upper", t)

(***************************************************************************)
(* HighOrderNonStationaryFTS.generate_flrg                                 *)
(***************************************************************************)
\* honsfts.py lines 55-65 and 104-115: the candidate sets of every lag of the
\* window that ends before index kk (0-based) of series d
Lags(d, kk, ord, disp, window_size) ==
    [o \in 1..ord |->
        Candidates(RInt(d[kk - ord + o]),
                   window_index((kk + disp) - (ord - (o - 1)), window_size))]

\* a loop over rhs that stops after its first element
AppendAll_first(rule, rhs) ==
    IF rhs = <<>> THEN rule ELSE append_rhs(rule, Head(rhs))

RECURSIVE AppendAll(_, _)
AppendAll(rule, rhs) ==
    IF rhs = <<>> THEN rule
    ELSE AppendAll(append_rhs(rule, Head(rhs)), Tail(rhs))

\* generate_flrg storing the rule it has just built for the path, whether or
\* not the key is in the table
RECURSIVE AddPaths_recreate(_, _, _)
AddPaths_recreate(table, paths, rhs) ==
    IF paths = <<>> THEN table
    ELSE LET key == get_key(Head(paths))
             t1  == (key :> NewFLRG(Head(paths))) @@ table
         IN  AddPaths_recreate([t1 EXCEPT ![key] = AppendAll(@, rhs)], Tail(paths), rhs)

\* honsfts.py lines 72-83: every path gets its rule, created when its key is
\* new, and every rhs set is appended to the rule stored under the key
RECURSIVE AddPaths(_, _, _)
AddPaths(table, paths, rhs) ==
    IF paths = <<>> THEN table
    ELSE LET key == get_key(Head(paths))
             t1  == IF key \in DOMAIN table THEN table
                    ELSE (key :> NewFLRG(Head(paths))) @@ table
         IN  AddPaths([t1 EXCEPT ![key] = AppendAll(@, rhs)], Tail(paths), rhs)

\* honsfts.py lines 42-83: the iteration of the loop for index kk (0-based)
GenerateFlrgStep(table, d, kk, ord, window_size) ==
    LET rhs == Candidates(RInt(d[kk + 1]), window_index(kk, window_size))
    IN  AddPaths(table, Paths(Lags(d, kk, ord, 0, window_size)), rhs)

(***************************************************************************)
(* HighOrderNonStationaryFTS._affected_flrgs, forecast, forecast_interval  *)
(***************************************************************************)
RECURSIVE RProd(_)
RProd(q) == IF q = <<>> THEN ROne ELSE RMul(Head(q), RProd(Tail(q)))

\* honsfts.py lines 138-147: the product over the lags of the membership of
\* the lag's value in the set the path chose for it
\* a joint membership that leaves out the lags whose membership is 0
JointMembership_positive(path, d, kk, ord, disp, window_size) ==
    LET mv == [ct \in 1..ord |->
                 membership(sets[path[ct]], RInt(d[kk - ord + ct]),
                            window_index((kk + disp) - (ord - (ct - 1)), window_size))]
    IN  RProd(SelectSeq(mv, LAMBDA m : m # RZero))

JointMembership(path, d, kk, ord, disp, window_size) ==
    RProd([ct \in 1..ord |->
        membership(sets[path[ct]], RInt(d[kk - ord + ct]),
                   window_index((kk + disp) - (ord - (ct - 1)), window_size))])

\* candidates taken with the sets of one time step later than training took
AffectedFlrgs_displaced(d, kk, ord, disp, window_size) ==
    LET paths == Paths(Lags(d, kk, ord, disp + 1, window_size))
    IN  [i \in 1..Len(paths) |->
            [LHS |-> paths[i],
             mv  |-> JointMembership(paths[i], d, kk, ord, disp + 1, window_size)]]

\* honsfts.py lines 98-149: the candidate rules of the window and their
\* joint memberships
AffectedFlrgs(d, kk, ord, disp, window_size) ==
    LET paths == Paths(Lags(d, kk, ord, disp, window_size))
    IN  [i \in 1..Len(paths) |->
            [LHS |-> paths[i],
             mv  |-> JointMembership(paths[i], d, kk, ord, disp, window_size)]]

\* the value of the candidate's first LHS set for a key not in the table
RuleValue_firstlag(table, a, what, t) ==
    IF get_key(a.LHS) \in DOMAIN table
    THEN RhsMean(table[get_key(a.LHS)], what, t)
    ELSE set_value(sets[a.LHS[1]], what, t)

\* honsfts.py lines 177-180 (midpoint), 227-232 (lower, upper): the
\* trained rule's value when the candidate's key is in the rule table, the
\* value of the candidate's last LHS set otherwise
RuleValue(table, a, what, t) ==
    IF get_key(a.LHS) \in DOMAIN table
    THEN RhsMean(table[get_key(a.LHS)], what, t)
    ELSE set_value(sets[a.LHS[Len(a.LHS)]], what, t)

\* the weighted sum divided by the total weight
WeightedSum_normalised(table, aff, what, t) ==
    LET total == RSum([i \in 1..Len(aff) |-> aff[i].mv])
        sum   == RSum([i \in 1..Len(aff) |->
                    RMul(RuleValue(table, aff[i], what, t), aff[i].mv)])
    IN  IF total = RZero THEN sum ELSE RDiv(sum, total)

\* honsfts.py lines 182-188, 234-244: the values of all candidates, each
\* multiplied by its joint membership, summed
WeightedSum(table, aff, what, t) ==
    RSum([i \in 1..Len(aff) |->
            RMul(RuleValue(table, aff[i], what, t), aff[i].mv)])

\* honsfts.py lines 171-189, 217-246: one candidate gives its value, several
\* give the weighted sum.  (No candidate is impossible: every lag has at least
\* one candidate set.)
Aggregate(table, aff, what, t) ==
    IF Len(aff) = 1 THEN RuleValue(table, aff[1], what, t)
    ELSE WeightedSum(table, aff, what, t)

\* a point forecast divided by the total weight of its candidates
ForecastStep_normalised(table, d, kk, ord, disp, window_size) ==
    LET aff == AffectedFlrgs(d, kk, ord, disp, window_size)
        t   == window_index(kk + disp, window_size)
    IN  IF Len(aff) = 1 THEN RuleValue(table, aff[1], "midpoint", t)
        ELSE WeightedSum_normalised(table, aff, "midpoint", t)

\* honsfts.py lines 161-193: the point forecast of the iteration for kk
ForecastStep(table, d, kk, ord, disp, window_size) ==
    Aggregate(table, AffectedFlrgs(d, kk, ord, disp, window_size),
              "midpoint", window_index(kk + disp, window_size))

\* the interval with its bounds exchanged
ForecastIntervalStep_swapped(table, d, kk, ord, disp, window_size) ==
    LET aff == AffectedFlrgs(d, kk, ord, disp, window_size)
        t   == window_index(kk + disp, window_size)
    IN  <<Aggregate(table, aff, "upper", t),
          Aggregate(table, aff, "lower", t)>>

\* honsfts.py lines 207-246: the interval of the iteration for kk
ForecastIntervalStep(table, d, kk, ord, disp, window_size) ==
    LET aff == AffectedFlrgs(d, kk, ord, disp, window_size)
        t   == window_index(kk + disp, window_size)
    IN  <<Aggregate(table, aff, "lower", t),
          Aggregate(table, aff, "upper", t)>>

(***************************************************************************)
(* The model: a partitioner built over [data_min, data_max], a model       *)
(* constructed with an order, then calls of train, forecast and            *)
(* forecast_interval, each running its loop one iteration at a time.       *)
(***************************************************************************)
MaxLen == 3

MaxTrains == 2

Orders == {1, 2}

\* the values of the series: a value between two centres, a value in the last
\* set only, the data maximum
Values == {-1, 3, 4}

DriftValues == {0, 1}

\* the default options of the calls: parameters=1, window_size=1,
\* time_displacement=0
WindowSize == 1

TimeDisplacement == 0

\* the order argument of train: absent, or an order
OrderArgs == {<<>>} \cup {<<n>> : n \in Orders}

Series == UNION {[1..n -> Values] : n \in 0..MaxLen}

InitModel ==
    /\ data_min = RInt(-2)
    /\ data_max = RInt(4)
    /\ partitions = 3
    /\ membership_function = "trimf"
    /\ max = data_max
    /\ min = ShiftedMin(data_min, PartLen(data_min, data_max, partitions))
    /\ sets = GridSets(data_min, data_max, partitions, membership_function)
    /\ built = TRUE
    /\ drift \in {RInt(v) : v \in DriftValues}
    /\ order \in Orders
    /\ flrgs = <<>>
    /\ pc = "idle"
    /\ op = "none"
    /\ data = <<>>
    /\ k = 0
    /\ ret = <<>>
    /\ trains = 0
    /\ flrgs0 = <<>>
    /\ fresh = <<>>
    /\ XIdle

\* honsfts.py line 42: kk in np.arange(self.order, l)
InTrainRange(kk, l) == kk < l

\* the range of the training loop used for forecasting
InForecastRange_exclusive(kk, l) == kk < l

\* honsfts.py lines 161, 207: kk in np.arange(self.order, l + 1)
InForecastRange(kk, l) == kk <= l

\* train(data, order=...): honsfts.py lines 87-96, to the head of the loop of
\* generate_flrg.  order_kw is <<>> when no order is passed.
Train(d, order_kw) ==
    /\ pc = "idle"
    /\ order' = IF order_kw = <<>> THEN order ELSE order_kw[1]
    /\ pc' = "train"
    /\ op' = "train"
    /\ data' = d
    /\ k' = order'
    /\ ret' = <<>>
    /\ trains' = trains + 1
    /\ flrgs0' = flrgs
    /\ fresh' = <<>>
    /\ UNCHANGED <<xvars, pvars, drift, flrgs>>

\* one iteration of the loop of generate_flrg
TrainLoop ==
    /\ pc = "train"
    /\ InTrainRange(k, Len(data))
    /\ flrgs' = GenerateFlrgStep(flrgs, data, k, order, WindowSize)
    /\ fresh' = GenerateFlrgStep(fresh, data, k, order, WindowSize)
    /\ k' = k + 1
    /\ UNCHANGED <<xvars, pvars, drift, order, pc, op, data, ret, trains, flrgs0>>

\* forecast(ndata): honsfts.py lines 151-159
Forecast(d) ==
    /\ pc = "idle"
    /\ pc' = "forecast"
    /\ op' = "forecast"
    /\ data' = d
    /\ k' = order
    /\ ret' = <<>>
    /\ UNCHANGED <<xvars, pvars, drift, order, flrgs, trains, flrgs0, fresh>>

\* one iteration of the loop of forecast
ForecastLoop ==
    /\ pc = "forecast"
    /\ InForecastRange(k, Len(data))
    /\ ret' = Append(ret, ForecastStep(flrgs, data, k, order, TimeDisplacement, WindowSize))
    /\ k' = k + 1
    /\ UNCHANGED <<xvars, pvars, drift, order, flrgs, pc, op, data, trains, flrgs0, fresh>>

\* forecast_interval(ndata): honsfts.py lines 197-205
ForecastInterval(d) ==
    /\ pc = "idle"
    /\ pc' = "forecast_interval"
    /\ op' = "forecast_interval"
    /\ data' = d
    /\ k' = order
    /\ ret' = <<>>
    /\ UNCHANGED <<xvars, pvars, drift, order, flrgs, trains, flrgs0, fresh>>

\* one iteration of the loop of forecast_interval
ForecastIntervalLoop ==
    /\ pc = "forecast_interval"
    /\ InForecastRange(k, Len(data))
    /\ ret' = Append(ret, ForecastIntervalStep(flrgs, data, k, order,
                                               TimeDisplacement, WindowSize))
    /\ k' = k + 1
    /\ UNCHANGED <<xvars, pvars, drift, order, flrgs, pc, op, data, trains, flrgs0, fresh>>

\* the loop of the operation in progress is over: the operation returns
LoopEnd ==
    /\ \/ pc = "train" /\ ~InTrainRange(k, Len(data))
       \/ pc \in {"forecast", "forecast_interval"} /\ ~InForecastRange(k, Len(data))
    /\ pc' = "done"
    /\ UNCHANGED <<xvars, pvars, drift, order, flrgs, op, data, k, ret, trains, flrgs0, fresh>>

\* the caller takes the result
Return ==
    /\ pc = "done"
    /\ pc' = "idle"
    /\ op' = "none"
    /\ data' = <<>>
    /\ k' = 0
    /\ ret' = <<>>
    /\ flrgs0' = <<>>
    /\ fresh' = <<>>
    /\ UNCHANGED <<xvars, pvars, drift, order, flrgs, trains>>

Init == InitModel

\* A model is trained once and then queried (spec section 3, lifecycle).
Next ==
    \/ \E d \in Series, o \in OrderArgs : trains = 0 /\ Train(d, o)
    \/ TrainLoop
    \/ \E d \in Series : Forecast(d)
    \/ ForecastLoop
    \/ \E d \in Series : ForecastInterval(d)
    \/ ForecastIntervalLoop
    \/ LoopEnd
    \/ Return

Spec == Init /\ [][Next]_vars

\* A model is trained again and again.
NextTrain ==
    \/ \E d \in Series, o \in OrderArgs : trains < MaxTrains /\ Train(d, o)
    \/ TrainLoop
    \/ LoopEnd
    \/ Return

\* re-training is explored for sets that do not move
InitTrain == InitModel /\ drift = RZero

SpecTrain == InitTrain /\ [][NextTrain]_vars

(***************************************************************************)
(* The grid partitioner alone: build over a universe of discourse.         *)
(***************************************************************************)
MinLo == 3

MaxSpan == 17

MaxPartitions == 7

GridMF == SupportedMF \cup {"other"}

\* the universes of discourse built: every span up to MaxSpan from 0 and from
\* -MinLo, and the scenario of spec section 8 (0, 100, 10)
GridInputs ==
    {<<lo, lo + d, n>> : lo \in {0, -MinLo}, d \in 1..MaxSpan, n \in 1..MaxPartitions}
        \cup {<<0, 100, 10>>}

InitGrid ==
    /\ \E g \in GridInputs :
          /\ data_min = RInt(g[1])
          /\ data_max = RInt(g[2])
          /\ min = RInt(g[1])
          /\ max = RInt(g[2])
          /\ partitions = g[3]
    /\ membership_function \in GridMF
    /\ sets = <<>>
    /\ built = FALSE
    /\ drift = RZero
    /\ order = 1
    /\ flrgs = <<>>
    /\ pc = "idle"
    /\ op = "none"
    /\ data = <<>>
    /\ k = 0
    /\ ret = <<>>
    /\ trains = 0
    /\ flrgs0 = <<>>
    /\ fresh = <<>>
    /\ XIdle

\* GridPartitioner.build
Build ==
    /\ ~built
    /\ sets' = GridSets(min, max, partitions, membership_function)
    /\ min' = ShiftedMin(min, PartLen(min, max, partitions))
    /\ built' = TRUE
    /\ UNCHANGED <<data_min, data_max, max, partitions, membership_function, mvars, xvars>>

NextGrid == Build

SpecGrid == InitGrid /\ [][NextGrid]_vars

(***************************************************************************)
(* Properties.                                                             *)
(***************************************************************************)
TrainDone == pc = "done" /\ op = "train"

\* two rule tables with the same keys and the same RHS under every key
SameRules(a, b) ==
    /\ DOMAIN a = DOMAIN b
    /\ \A key \in DOMAIN a : a[key].RHS = b[key].RHS

\* the key-wise union of two rule tables
MergedRules(a, b) ==
    [key \in DOMAIN a \cup DOMAIN b |->
        [RHS |-> (IF key \in DOMAIN a THEN a[key].RHS ELSE {})
                    \cup (IF key \in DOMAIN b THEN b[key].RHS ELSE {})]]

C2_GridEmitsPartitions ==
    built /\ membership_function \in SupportedMF
        => /\ Len(sets) = partitions
           /\ \A i \in 1..Len(sets) :
                /\ sets[i].name = i - 1
                /\ sets[i].centroid =
                      RAdd(data_min, RMul(RInt(i - 1),
                           RDiv(RSub(data_max, data_min), RInt(partitions))))

\* C3: the step that builds decreases min by (max - min) / partitions and
\* leaves max, partitions and the membership function as they were.
C3_BuildShiftsMinOnly ==
    [][(~built /\ built')
        => /\ min' = RSub(min, RDiv(RSub(max, min), RInt(partitions)))
           /\ max' = max
           /\ partitions' = partitions
           /\ membership_function' = membership_function]_vars

\* the scenario of spec section 8: min = 0, max = 100, 10 partitions
C3_Witness ==
    /\ built
    /\ data_min = RInt(0) /\ data_max = RInt(100) /\ partitions = 10
    /\ min = RInt(-10) /\ max = RInt(100)

ProbeDiv == 4

\* points of [data_min, data_max], ProbeDiv to every partition width
Probes ==
    {RAdd(data_min, RDiv(RMul(RInt(j), RSub(data_max, data_min)),
                         RInt(partitions * ProbeDiv))) :
        j \in 0..(partitions * ProbeDiv)}

\* C4: with triangular sets, a point of [data_min, data_max] that no set
\* covers is the outer edge of the first or of the last set, and the supports
\* of adjacent sets overlap.
C4_PartitionCoverage ==
    built /\ membership_function = "trimf"
        => /\ \A v \in Probes :
                Fuzzify(v, 0) = {}
                    => v \in {set_lower(sets[1], 0), set_upper(sets[Len(sets)], 0)}
           /\ \A i \in 1..(Len(sets) - 1) :
                RLt(set_lower(sets[i + 1], 0), set_upper(sets[i], 0))

\* three or more triangular sets whose last outer edge, data_max, is uncovered
C4_Witness ==
    /\ built /\ membership_function = "trimf"
    /\ Len(sets) >= 3
    /\ Fuzzify(data_max, 0) = {}
    /\ Fuzzify(RSub(data_max, RInt(1)), 0) # {}

\* C5 (as claimed): the data minimum and the data maximum each have a
\* membership > 0 in some set built, so neither reaches the fallback.
C5_BoundsFuzzifyNonEmpty ==
    built /\ membership_function \in {"trimf", "trapmf"}
        => /\ Fuzzify(data_min, 0) # {}
           /\ Fuzzify(data_max, 0) # {}

\* C6: forecast and forecast_interval return n - order + 1 entries for a
\* series of n >= order values, and none for a shorter series.
C6_ForecastLength ==
    pc = "done" /\ op \in {"forecast", "forecast_interval"}
        => Len(ret) = IF Len(data) >= order THEN Len(data) - order + 1 ELSE 0

\* a trained model has returned two intervals for three values at order 2
C6_Witness ==
    /\ pc = "done" /\ op = "forecast_interval"
    /\ trains = 1 /\ flrgs # <<>>
    /\ order = 2 /\ Len(data) = 3 /\ Len(ret) = 2

\* C7 (as claimed): when train returns, every rule has a non-empty RHS and an
\* LHS of length order.
C7_RulesWellFormed ==
    TrainDone
        => \A key \in DOMAIN flrgs :
              flrgs[key].RHS # {} /\ Len(flrgs[key].LHS) = order

\* C7 (amended): when train returns, every rule has a non-empty RHS, and
\* every rule the call created or extended has an LHS of length order; a rule
\* left by an earlier train keeps the length it was created with.
C7_RulesWellFormedPerTrain ==
    TrainDone
        => \A key \in DOMAIN flrgs :
              /\ flrgs[key].RHS # {}
              /\ Len(flrgs[key].LHS) = Len(key)
              /\ key \in DOMAIN fresh => Len(flrgs[key].LHS) = order

\* train has returned rules from a series with a target outside every support
C7_Witness ==
    /\ TrainDone
    /\ flrgs # <<>>
    /\ \E i \in (order + 1)..Len(data) :
          Fuzzify(RInt(data[i]), window_index(i - 1, WindowSize)) = {}

(***************************************************************************)
(* The forecast of the i-th entry of ret, restated over the choices of one *)
(* candidate set per lag.                                                  *)
(***************************************************************************)
\* the loop index that produced ret[i]
StepOf(i) == order + i - 1

\* the value and the time displacement of lag o (1..order) of that step
LagValue(i, o) == RInt(data[StepOf(i) - order + o])

LagTime(i, o) ==
    window_index((StepOf(i) + TimeDisplacement) - (order - (o - 1)), WindowSize)

LagSets(i, o) ==
    LET sel == Fuzzify(LagValue(i, o), LagTime(i, o))
    IN  IF sel = {} THEN {check_bounds_index(LagValue(i, o), LagTime(i, o))}
        ELSE sel

Choices(i) ==
    LET lags == [o \in 1..order |-> LagSets(i, o)]
    IN  {f \in [1..order -> 1..Len(sets)] : \A o \in 1..order : f[o] \in lags[o]}

ChoiceWeight(i, f) ==
    RProd([o \in 1..order |-> membership(sets[f[o]], LagValue(i, o), LagTime(i, o))])

ChoiceMidpoint(i, f) ==
    LET t   == window_index(StepOf(i) + TimeDisplacement, WindowSize)
        key == get_key([o \in 1..order |-> f[o]])
    IN  IF key \in DOMAIN flrgs THEN flrg_midpoint(flrgs[key], t)
        ELSE set_midpoint(sets[f[order]], t)

\* the sum over the choices S of midpoint times weight
RECURSIVE ChoiceSum(_, _)
ChoiceSum(i, S) ==
    IF S = {} THEN RZero
    ELSE LET f == CHOOSE e \in S : TRUE
         IN  RAdd(RMul(ChoiceMidpoint(i, f), ChoiceWeight(i, f)),
                  ChoiceSum(i, S \ {f}))

\* the sum over the choices S of the weights
RECURSIVE ChoiceTotal(_, _)
ChoiceTotal(i, S) ==
    IF S = {} THEN RZero
    ELSE LET f == CHOOSE e \in S : TRUE
         IN  RAdd(ChoiceWeight(i, f), ChoiceTotal(i, S \ {f}))

\* C8: a point forecast with more than one candidate is the sum over the
\* candidates of the rule midpoint (the last LHS set's midpoint for a key not
\* in the table) times the joint membership, not divided by the total weight.
C8_WeightedSumForecast ==
    op = "forecast"
        => \A i \in 1..Len(ret) :
              Cardinality(Choices(i)) > 1
                  => ret[i] = ChoiceSum(i, Choices(i))

\* a trained model has forecast a step with several candidates whose weights
\* do not add up to 1
C8_Witness ==
    /\ op = "forecast" /\ trains = 1 /\ ret # <<>>
    /\ Cardinality(Choices(1)) > 1
    /\ ChoiceTotal(1, Choices(1)) # ROne
    /\ \E f \in Choices(1) : get_key([o \in 1..order |-> f[o]]) \in DOMAIN flrgs
    /\ ret[1] # RZero

\* C9 (as claimed): when exactly one set has a membership > 0 at every lag,
\* the forecast equals the weighted sum over that single candidate, whose
\* joint membership is 1.
C9_SingleMatchReduction ==
    op = "forecast" /\ flrgs # <<>>
        => \A i \in 1..Len(ret) :
              (\A o \in 1..order :
                    Cardinality(Fuzzify(LagValue(i, o), LagTime(i, o))) = 1)
                  => LET aff == AffectedFlrgs(data, StepOf(i), order,
                                              TimeDisplacement, WindowSize)
                     IN  /\ aff[1].mv = ROne
                         /\ ret[i] = WeightedSum(flrgs, aff, "midpoint",
                                        window_index(StepOf(i) + TimeDisplacement,
                                                     WindowSize))

\* C10: every interval forecast_interval produces has lower <= upper.
C10_IntervalOrdered ==
    op = "forecast_interval"
        => \A i \in 1..Len(ret) : RLe(ret[i][1], ret[i][2])

\* a trained model has produced, from several candidates, an interval with a
\* negative lower bound below its upper bound
C10_Witness ==
    /\ op = "forecast_interval" /\ trains = 1 /\ ret # <<>>
    /\ Cardinality(Choices(1)) > 1
    /\ RLt(ret[1][1], RZero)
    /\ RLt(ret[1][1], ret[1][2])

(***************************************************************************)
(* Candidates whose key is not in the rule table.                          *)
(***************************************************************************)
ChoiceKey(f) == get_key([o \in 1..order |-> f[o]])

SeenChoices(i) == {f \in Choices(i) : ChoiceKey(f) \in DOMAIN flrgs}

UnseenChoices(i) == Choices(i) \ SeenChoices(i)

\* the sum over the candidates S with a rule of the rule's value at t, times
\* the candidate's weight unless it is the only candidate
RECURSIVE SeenSum(_, _, _, _, _)
SeenSum(i, S, what, t, single) ==
    IF S = {} THEN RZero
    ELSE LET f == CHOOSE e \in S : TRUE
             v == RhsMean(flrgs[ChoiceKey(f)], what, t)
         IN  RAdd(IF single THEN v ELSE RMul(v, ChoiceWeight(i, f)),
                  SeenSum(i, S \ {f}, what, t, single))

\* the sum over the candidates S without a rule of the value at t of the
\* candidate's last-lag set, times the candidate's weight unless it is the
\* only candidate
RECURSIVE UnseenSum(_, _, _, _, _)
UnseenSum(i, S, what, t, single) ==
    IF S = {} THEN RZero
    ELSE LET f == CHOOSE e \in S : TRUE
             v == set_value(sets[f[order]], what, t)
         IN  RAdd(IF single THEN v ELSE RMul(v, ChoiceWeight(i, f)),
                  UnseenSum(i, S \ {f}, what, t, single))

DegradedValue(i, what) ==
    LET C      == Choices(i)
        seen   == {f \in C : ChoiceKey(f) \in DOMAIN flrgs}
        t      == window_index(StepOf(i) + TimeDisplacement, WindowSize)
        single == Cardinality(C) = 1
    IN  RAdd(SeenSum(i, seen, what, t, single),
             UnseenSum(i, C \ seen, what, t, single))

\* C11: a candidate whose key is not in the rule table contributes the
\* midpoint (in forecast_interval the lower and the upper bound) of its own
\* last-lag set, alone when it is the only candidate and times its joint
\* membership otherwise; every step with such a candidate yields a value.
\* (Stated of the entry the loop has just appended: entries never change.)
C11_UnseenDegrades ==
    pc \in {"forecast", "forecast_interval"} /\ ret # <<>>
        => LET i == Len(ret)
           IN  UnseenChoices(i) # {}
                 => /\ op = "forecast" => ret[i] = DegradedValue(i, "midpoint")
                    /\ op = "forecast_interval"
                          => /\ ret[i][1] = DegradedValue(i, "lower")
                             /\ ret[i][2] = DegradedValue(i, "upper")

\* forecast_interval on a table with rules has answered a step with a
\* candidate that has a rule and a candidate that has none, whose first and
\* last sets differ
C11_Witness ==
    /\ op = "forecast_interval" /\ flrgs # <<>> /\ ret # <<>>
    /\ SeenChoices(1) # {}
    /\ \E f \in UnseenChoices(1) : f[1] # f[order]

(***************************************************************************)
(* Threads that share one model.  A thread switch falls between two        *)
(* statements: a forecast call of another thread runs its loop one         *)
(* iteration at a time.                                                    *)
(***************************************************************************)
MaxReadLen == 2

Threads == {1, 2}

\* the values the threads ask about: a value between two centres, and the
\* data maximum, which is in no set
ReadValues == {-1, 4}

ReadSeries == UNION {[1..n -> ReadValues] : n \in 0..MaxReadLen}

\* the operation each thread calls
ReadOps(r) == IF r = 1 THEN {"forecast"} ELSE {"forecast_interval"}

\* the series a model has been trained on before it is shared
TrainingData == {<<-1, 3, 4>>, <<3, -1, -1>>}

\* generate_flrg as a whole (honsfts.py lines 42-83): the loop from index kk
RECURSIVE TrainAll(_, _, _, _)
TrainAll(table, d, kk, ord) ==
    IF InTrainRange(kk, Len(d))
    THEN TrainAll(GenerateFlrgStep(table, d, kk, ord, WindowSize), d, kk + 1, ord)
    ELSE table

\* a thread that is not in a call
NoCall == [pc |-> "idle", op |-> "none", data |-> <<>>, k |-> 0,
           ret |-> <<>>, obs |-> <<>>]

\* the mean over an empty RHS: not a number
RNaN == <<0, 0>>

\* the keys of the candidates of the window that ends before index kk
CandidateKeys(d, kk, ord) ==
    LET paths == Paths(Lags(d, kk, ord, TimeDisplacement, WindowSize))
    IN  {get_key(paths[i]) : i \in 1..Len(paths)}

\* what an iteration of forecast reads of the rule table: the RHS of the rule
\* of every candidate that has one
Observed(table, d, kk, ord) ==
    LET keys == CandidateKeys(d, kk, ord) \cap DOMAIN table
    IN  [key \in keys |-> table[key].RHS]

\* honsfts.py lines 163-193, 209-246: the entry one iteration appends
ReadValue(table, o, d, kk, ord) ==
    IF \E key \in CandidateKeys(d, kk, ord) \cap DOMAIN table : table[key].RHS = {}
    THEN IF o = "forecast" THEN RNaN ELSE <<RNaN, RNaN>>
    ELSE IF o = "forecast"
         THEN ForecastStep(table, d, kk, ord, TimeDisplacement, WindowSize)
         ELSE ForecastIntervalStep(table, d, kk, ord, TimeDisplacement, WindowSize)

\* a forecast that stores a rule for every candidate it had none for
ForecastTable_learning(table, d, kk, ord) ==
    AddPaths(table, Paths(Lags(d, kk, ord, TimeDisplacement, WindowSize)), <<1>>)

\* honsfts.py lines 151-195, 197-249: the rule table after an iteration of
\* forecast or forecast_interval; neither assigns to self.flrgs or to a rule
ForecastTable(table, d, kk, ord) == table

\* forecast(ndata) or forecast_interval(ndata) is called in thread r
ReaderCall(r, o, d) ==
    /\ readers[r].pc = "idle"
    /\ readers' = [readers EXCEPT ![r] =
            [pc |-> "loop", op |-> o, data |-> d, k |-> order,
             ret |-> <<>>, obs |-> <<>>]]
    /\ UNCHANGED <<pvars, mvars, todo, bvars>>

\* one iteration of the loop of the call of thread r
ReaderLoop(r) ==
    LET c == readers[r]
    IN  /\ c.pc = "loop"
        /\ InForecastRange(c.k, Len(c.data))
        /\ readers' = [readers EXCEPT ![r] =
                [c EXCEPT !.ret = Append(@, ReadValue(flrgs, c.op, c.data, c.k, order)),
                          !.obs = Append(@, [rules |-> Observed(flrgs, c.data, c.k, order),
                                             training |-> (pc = "train")]),
                          !.k = @ + 1]]
        /\ flrgs' = ForecastTable(flrgs, c.data, c.k, order)
        /\ UNCHANGED <<pvars, drift, order, pc, op, data, k, ret, trains,
                       flrgs0, fresh, todo, bvars>>

\* the loop of the call of thread r is over
ReaderEnd(r) ==
    /\ readers[r].pc = "loop"
    /\ ~InForecastRange(readers[r].k, Len(readers[r].data))
    /\ readers' = [readers EXCEPT ![r].pc = "done"]
    /\ UNCHANGED <<pvars, mvars, todo, bvars>>

\* the caller in thread r takes the result
ReaderReturn(r) ==
    /\ readers[r].pc = "done"
    /\ readers' = [readers EXCEPT ![r] = NoCall]
    /\ UNCHANGED <<pvars, mvars, todo, bvars>>

\* a trained model (the table after train, kept in flrgs0) shared by threads
InitReaders ==
    /\ data_min = RInt(-2)
    /\ data_max = RInt(4)
    /\ partitions = 3
    /\ membership_function = "trimf"
    /\ max = data_max
    /\ min = ShiftedMin(data_min, PartLen(data_min, data_max, partitions))
    /\ sets = GridSets(data_min, data_max, partitions, membership_function)
    /\ built = TRUE
    /\ drift \in {RInt(v) : v \in DriftValues}
    /\ order \in Orders
    /\ \E d \in TrainingData : flrgs = TrainAll(<<>>, d, order, order)
    /\ flrgs0 = flrgs
    /\ pc = "idle"
    /\ op = "none"
    /\ data = <<>>
    /\ k = 0
    /\ ret = <<>>
    /\ trains = 1
    /\ fresh = <<>>
    /\ todo = <<>>
    /\ readers = [r \in Threads |-> NoCall]
    /\ BIdle

NextReaders ==
    \E r \in Threads :
        \/ \E o \in ReadOps(r), d \in ReadSeries : ReaderCall(r, o, d)
        \/ ReaderLoop(r)
        \/ ReaderEnd(r)
        \/ ReaderReturn(r)

SpecReaders == InitReaders /\ [][NextReaders]_vars

\* the result of a call that runs alone on the table
RECURSIVE AloneFrom(_, _, _, _, _)
AloneFrom(table, o, d, kk, ord) ==
    IF InForecastRange(kk, Len(d))
    THEN <<ReadValue(table, o, d, kk, ord)>> \o AloneFrom(table, o, d, kk + 1, ord)
    ELSE <<>>

\* C12: forecast and forecast_interval only read the trained model.  Whatever
\* calls the threads have made and however they interleave, the rule table is
\* the table train left (same keys, same LHS and RHS in every rule), and a
\* call that has finished returns what it returns when it runs alone.
C12_ForecastReadsOnly ==
    /\ flrgs = flrgs0
    /\ \A r \in DOMAIN readers :
          readers[r].pc = "done"
              => readers[r].ret = AloneFrom(flrgs0, readers[r].op, readers[r].data,
                                            order, order)

\* two calls are interleaved on a table with rules: each has appended an
\* entry and neither has left its loop; one entry is for candidates without a
\* rule, the other for candidates with rules
C12_Witness ==
    /\ flrgs # <<>>
    /\ \A r \in Threads : readers[r].pc = "loop" /\ Len(readers[r].ret) = 1
    /\ readers[1].obs[1].rules = <<>>
    /\ readers[2].obs[1].rules # <<>>

(***************************************************************************)
(* train in one thread while another thread forecasts.  generate_flrg runs *)
(* a statement at a time: the insertion of lines 79-80 and every           *)
(* append_rhs of lines 82-83 are separate steps.                           *)
(***************************************************************************)
\* a stored rule replaced by the new, empty one
InsertRule_replace(table, path) ==
    [key \in DOMAIN table \cup {get_key(path)} |->
        IF key = get_key(path) THEN NewFLRG(path) ELSE table[key]]

\* honsfts.py lines 79-80: the rule is stored when its key is new
InsertRule(table, path) ==
    IF get_key(path) \in DOMAIN table THEN table
    ELSE (get_key(path) :> NewFLRG(path)) @@ table

\* honsfts.py lines 82-83, one turn of the loop
AppendRule(table, path, st) ==
    [table EXCEPT ![get_key(path)] = append_rhs(@, st)]

\* honsfts.py lines 73-83: the statements of the paths from the i-th on
RECURSIVE PathStatements(_, _, _)
PathStatements(paths, i, rhs) ==
    IF i > Len(paths) THEN <<>>
    ELSE <<[stmt |-> "insert", path |-> paths[i], st |-> 0]>>
            \o [j \in 1..Len(rhs) |->
                    [stmt |-> "append", path |-> paths[i], st |-> rhs[j]]]
            \o PathStatements(paths, i + 1, rhs)

\* honsfts.py lines 44-83: the statements of the iteration for index kk
Statements(d, kk, ord) ==
    PathStatements(Paths(Lags(d, kk, ord, 0, WindowSize)), 1,
                   Candidates(RInt(d[kk + 1]), window_index(kk, WindowSize)))

MaxConcLen == 2

\* the values of those series: a value in two sets, a value in one set
ConcValues == {-1, 3}

\* the series train is called with while another thread forecasts
ConcSeries == UNION {[1..n -> ConcValues] : n \in 0..MaxConcLen}

\* train(data) is called while the forecasting thread runs
ConcTrain(d) ==
    /\ pc = "idle"
    /\ trains = 0
    /\ pc' = "train"
    /\ op' = "train"
    /\ data' = d
    /\ k' = order
    /\ trains' = 1
    /\ flrgs0' = flrgs
    /\ UNCHANGED <<pvars, drift, order, flrgs, ret, fresh, todo, readers, bvars>>

\* the loop of generate_flrg takes its next index and computes rhs and paths
ConcIteration ==
    /\ pc = "train"
    /\ todo = <<>>
    /\ InTrainRange(k, Len(data))
    /\ todo' = Statements(data, k, order)
    /\ k' = k + 1
    /\ UNCHANGED <<pvars, drift, order, flrgs, pc, op, data, ret, trains,
                   flrgs0, fresh, readers, bvars>>

\* the next statement of lines 79-83 runs
ConcStatement ==
    /\ pc = "train"
    /\ todo # <<>>
    /\ flrgs' = IF Head(todo).stmt = "insert"
                THEN InsertRule(flrgs, Head(todo).path)
                ELSE AppendRule(flrgs, Head(todo).path, Head(todo).st)
    /\ todo' = Tail(todo)
    /\ UNCHANGED <<pvars, drift, order, pc, op, data, k, ret, trains,
                   flrgs0, fresh, readers, bvars>>

\* generate_flrg and train return
ConcTrainEnd ==
    /\ pc = "train"
    /\ todo = <<>>
    /\ ~InTrainRange(k, Len(data))
    /\ pc' = "done"
    /\ UNCHANGED <<pvars, drift, order, flrgs, op, data, k, ret, trains,
                   flrgs0, fresh, todo, readers, bvars>>

\* a model, new or trained before, shared by a training and a forecasting
\* thread
InitConc ==
    /\ data_min = RInt(-2)
    /\ data_max = RInt(4)
    /\ partitions = 3
    /\ membership_function = "trimf"
    /\ max = data_max
    /\ min = ShiftedMin(data_min, PartLen(data_min, data_max, partitions))
    /\ sets = GridSets(data_min, data_max, partitions, membership_function)
    /\ built = TRUE
    /\ drift = RZero
    /\ order \in Orders
    /\ \/ flrgs = <<>>
       \/ \E d \in TrainingData : flrgs = TrainAll(<<>>, d, order, order)
    /\ flrgs0 = flrgs
    /\ pc = "idle"
    /\ op = "none"
    /\ data = <<>>
    /\ k = 0
    /\ ret = <<>>
    /\ trains = 0
    /\ fresh = <<>>
    /\ todo = <<>>
    /\ readers = [r \in {1} |-> NoCall]
    /\ BIdle

NextConc ==
    \/ \E d \in ConcSeries : ConcTrain(d)
    \/ ConcIteration
    \/ ConcStatement
    \/ ConcTrainEnd
    \/ \E d \in ReadSeries : ReaderCall(1, "forecast", d)
    \/ ReaderLoop(1)
    \/ ReaderEnd(1)
    \/ ReaderReturn(1)

SpecConc == InitConc /\ [][NextConc]_vars

\* the table train has when it returns
PostTable == IF trains = 0 THEN flrgs ELSE TrainAll(flrgs0, data, order, order)

\* the RHS a rule state read under key has in the pre-train table (none when
\* the key is new) and in the post-train table
PreRHS(key) == IF key \in DOMAIN flrgs0 THEN flrgs0[key].RHS ELSE {}

Intermediate(post, key, rhs) ==
    /\ key \notin DOMAIN flrgs0 \/ flrgs0[key].RHS # rhs
    /\ post[key].RHS # rhs

\* C13: every rule state a forecast reads lies between the pre-train and the
\* post-train state of the rule: its RHS holds the pre-train RHS and is held
\* by the post-train RHS; and it is a state of neither table (inserted with
\* an empty RHS, or with a part of its RHS) only if train was in flight when
\* it was read.  When train has returned the table is the post-train table.
C13_ReadsBetweenTables ==
    LET post == PostTable
    IN  /\ pc = "done" => flrgs = post
        /\ \A r \in DOMAIN readers : \A i \in 1..Len(readers[r].obs) :
              LET o == readers[r].obs[i]
              IN  \A key \in DOMAIN o.rules :
                    /\ key \in DOMAIN post
                    /\ PreRHS(key) \subseteq o.rules[key]
                    /\ o.rules[key] \subseteq post[key].RHS
                    /\ Intermediate(post, key, o.rules[key]) => o.training

\* one forecast call has read, while train was in flight, a rule inserted
\* with its RHS still empty, which made its entry not a number, and a rule
\* with a part of its RHS, neither a state of the pre-train or post-train
\* table
C13_Witness ==
    /\ Len(readers[1].ret) = 2
    /\ \E key \in DOMAIN readers[1].obs[1].rules :
          /\ readers[1].obs[1].rules[key] = {}
          /\ Intermediate(PostTable, key, {})
    /\ readers[1].ret[1] = RNaN
    /\ \E key \in DOMAIN readers[1].obs[2].rules :
          /\ readers[1].obs[2].rules[key] # {}
          /\ Intermediate(PostTable, key, readers[1].obs[2].rules[key])
    /\ readers[1].ret[2] # RNaN

(***************************************************************************)
(* The partitioner, the model and the threads at rest, for the             *)
(* specifications of the other classes.                                    *)
(***************************************************************************)
CoreIdle ==
    /\ data_min = RZero
    /\ data_max = ROne
    /\ min = RZero
    /\ max = ROne
    /\ partitions = 1
    /\ membership_function = "trimf"
    /\ sets = <<>>
    /\ built = FALSE
    /\ drift = RZero
    /\ order = 1
    /\ flrgs = <<>>
    /\ pc = "idle"
    /\ op = "none"
    /\ data = <<>>
    /\ k = 0
    /\ ret = <<>>
    /\ trains = 0
    /\ flrgs0 = <<>>
    /\ fresh = <<>>
    /\ todo = <<>>
    /\ readers = <<>>

corevars == <<pvars, mvars, cvars>>

(***************************************************************************)
(* multivariate/cmvfts.py: ClusteredMVFTS.forecast, forecast_interval,     *)
(* forecast_distribution.  The internal model and the partitioner are      *)
(* collaborators: the calls made to them are recorded in frame.trace, and  *)
(* the internal model answers with what it was given.                      *)
(***************************************************************************)
MaxRows == 2

Rows == UNION {[1..n -> {0, 1}] : n \in 0..MaxRows}

CMVOps == {"forecast", "forecast_interval", "forecast_distribution"}

\* the pre_fuzzyfy keyword of a call: absent, or a value
PreFuzzArgs == {<<>>, <<TRUE>>, <<FALSE>>}

\* a guard that lets every call through
Capability_any(model, o) == TRUE

\* cmvfts.py lines 77, 90: the flag of the internal model the operation needs
\* (forecast, lines 67-73, needs none)
Capability(model, o) ==
    CASE o = "forecast_interval"     -> model.has_interval_forecasting
      [] o = "forecast_distribution" -> model.has_probability_forecasting
      [] OTHER                       -> TRUE

\* cmvfts.py lines 59-65: check_data
check_data(wrapper, d) ==
    [i \in 1..Len(d) |->
        IF wrapper.pre_fuzzyfy THEN <<"fuzzyfy", d[i]>> ELSE <<"format_data", d[i]>>]

InitCMV ==
    /\ CoreIdle
    /\ \E i \in BOOLEAN, p \in BOOLEAN, f \in BOOLEAN :
          obj = [class |-> "ClusteredMVFTS",
                 model |-> [has_interval_forecasting |-> i,
                            has_probability_forecasting |-> p],
                 partitioner |-> "partitioner",
                 pre_fuzzyfy |-> f]
    /\ frame = NoFrame
    /\ result = NoResult

\* one of the three operations is called
CMVCall(o, d, kw) ==
    /\ frame.pc = "idle"
    /\ frame' = [pc |-> "guard", op |-> o, data |-> d, kwargs |-> kw,
                 ndata |-> <<>>, trace |-> <<>>, obj0 |-> obj]
    /\ result' = NoResult
    /\ UNCHANGED <<corevars, obj>>

\* cmvfts.py lines 77-78, 90-91: the capability guard
CMVGuard ==
    /\ frame.pc = "guard"
    /\ IF Capability(obj.model, frame.op)
       THEN /\ frame' = [frame EXCEPT !.pc = "check_data"]
            /\ UNCHANGED result
       ELSE /\ frame' = [frame EXCEPT !.pc = "returned"]
            /\ result' = [kind |-> "raise", value |-> "Exception"]
    /\ UNCHANGED <<corevars, obj>>

\* cmvfts.py lines 69, 80, 93: data = self.check_data(data)
CMVCheckData ==
    /\ frame.pc = "check_data"
    /\ frame' = [frame EXCEPT !.pc = "delegate",
                              !.ndata = check_data(obj, frame.data),
                              !.trace = Append(@, "check_data")]
    /\ UNCHANGED <<corevars, obj, result>>

\* cmvfts.py lines 71-73, 82-84, 95-97: the call of the internal model
CMVDelegate ==
    /\ frame.pc = "delegate"
    /\ LET pre_fuzz == IF frame.kwargs = <<>> THEN obj.pre_fuzzyfy
                       ELSE frame.kwargs[1]
       IN  result' = [kind |-> "return",
                      value |-> [op |-> frame.op, data |-> frame.ndata,
                                 fuzzyfied |-> pre_fuzz]]
    /\ frame' = [frame EXCEPT !.pc = "returned",
                              !.trace = Append(@, "model." \o frame.op)]
    /\ UNCHANGED <<corevars, obj>>

\* the caller has the result or the exception
CMVReturn ==
    /\ frame.pc = "returned"
    /\ frame' = NoFrame
    /\ result' = NoResult
    /\ UNCHANGED <<corevars, obj>>

NextCMV ==
    \/ \E o \in CMVOps, d \in Rows, kw \in PreFuzzArgs : CMVCall(o, d, kw)
    \/ CMVGuard
    \/ CMVCheckData
    \/ CMVDelegate
    \/ CMVReturn

SpecCMV == InitCMV /\ [][NextCMV]_vars

\* the call in progress asks for a capability the internal model lacks
Unsupported ==
    \/ frame.op = "forecast_interval" /\ ~obj.model.has_interval_forecasting
    \/ frame.op = "forecast_distribution" /\ ~obj.model.has_probability_forecasting

\* C14: forecast_interval on an internal model without interval forecasting,
\* and forecast_distribution on one without probabilistic forecasting, end
\* with an exception; no data has been fuzzified and the internal model has
\* not been called, and the fields of the wrapper are what they were.
C14_UnsupportedFailsFast ==
    frame.pc \in {"check_data", "delegate", "returned"} /\ Unsupported
        => /\ frame.pc = "returned"
           /\ result.kind = "raise"
           /\ frame.trace = <<>>
           /\ frame.ndata = <<>>
           /\ obj = frame.obj0

\* forecast_distribution has raised on data the wrapper would have fuzzified,
\* for an internal model that supports intervals but not distributions
C14_Witness ==
    /\ frame.pc = "returned"
    /\ frame.op = "forecast_distribution"
    /\ obj.model.has_interval_forecasting
    /\ ~obj.model.has_probability_forecasting
    /\ obj.pre_fuzzyfy
    /\ Len(frame.data) = 2
    /\ result.kind = "raise"

(***************************************************************************)
(* forecast_ahead_interval and forecast_ahead_distribution of EnsembleFTS  *)
(* (ensemble.py), ClusteredMVFTS (cmvfts.py), ARIMA (arima.py) and         *)
(* QuantileRegression (quantreg.py).  Values are integers.  The member     *)
(* models of the ensemble, the internal model of the wrapper and the       *)
(* fitted regressions are collaborators: a one-step forecast answers the   *)
(* last value it is given plus the model's increment.                      *)
(***************************************************************************)
MaxSteps == 2

MaxAheadLen == 4

AheadOrders == {1, 2}

AheadValues == {1, 5}

\* Python's s[a:b] for 0 <= a, 0 <= b
Slice(q, a, b) ==
    LET hi == IF b > Len(q) THEN Len(q) ELSE b
    IN  IF a >= hi THEN <<>> ELSE SubSeq(q, a + 1, hi)

\* Python's s[-n:] for n > 0
LastN(q, n) == IF n >= Len(q) THEN q ELSE SubSeq(q, Len(q) - n + 1, Len(q))

RECURSIVE Flatten(_)
Flatten(qq) == IF qq = <<>> THEN <<>> ELSE Head(qq) \o Flatten(Tail(qq))

SeqMin(q) == CHOOSE v \in {q[i] : i \in 1..Len(q)} : \A j \in 1..Len(q) : v <= q[j]

SeqMax(q) == CHOOSE v \in {q[i] : i \in 1..Len(q)} : \A j \in 1..Len(q) : v >= q[j]

\* np.nanpercentile(data, q = pct), by nearest rank: the smallest value with
\* at least pct percent of the data at or below it
Percentile(q, pct) ==
    LET vals     == {q[i] : i \in 1..Len(q)}
        below(v) == Cardinality({i \in 1..Len(q) : q[i] <= v})
        enough   == {v \in vals : 100 * below(v) >= pct * Len(q)}
    IN  CHOOSE v \in enough : \A w \in enough : v <= w

\* ensemble.py lines 20-27: sampler(data, np.arange(.1, 1, 0.1), bounds=True)
sampler(q) ==
    <<SeqMin(q)>> \o [t \in 1..9 |-> Percentile(q, 10 * t)] \o <<SeqMax(q)>>

\* ensemble.py lines 84-104: one forecast of every member model for a path
get_models_forecasts(e, path) ==
    [m \in 1..Len(e.models) |-> path[Len(path)] + e.models[m]]

\* ensemble.py lines 200-201, 266-267: the forecasts of every path of
\* product(*lags)
RECURSIVE ProductPaths(_)
ProductPaths(lags) ==
    IF lags = <<>> THEN <<<<>>>>
    ELSE LET rest == ProductPaths(Tail(lags))
         IN  Flatten([i \in 1..Len(Head(lags)) |->
                        [j \in 1..Len(rest) |-> <<Head(lags)[i]>> \o rest[j]]])

PathForecasts(e, lags) ==
    LET paths == ProductPaths(lags)
    IN  Flatten([i \in 1..Len(paths) |-> get_models_forecasts(e, paths[i])])

\* ensemble.py lines 124-138, 212-213: get_interval with the quantile method
\* (the default), and the only interval of the list it returns
get_interval(e, forecasts) ==
    <<Percentile(forecasts, e.alpha), Percentile(forecasts, 100 - e.alpha)>>

\* ensemble.py lines 78-79: get_UoD; arima.py line 198, quantreg.py line 154
get_UoD(e) == <<e.original_min, e.original_max>>

\* fts.FTS.forecast_ahead: steps one-step forecasts from the last order
\* points, each appended to the data
RECURSIVE forecast_ahead(_, _, _, _)
forecast_ahead(d, n, ord, inc) ==
    IF n = 0 THEN <<>>
    ELSE LET tmp == LastN(d, ord)[Len(LastN(d, ord))] + inc
         IN  <<tmp>> \o forecast_ahead(Append(d, tmp), n - 1, ord, inc)

AheadClasses == {"EnsembleFTS", "ClusteredMVFTS", "ARIMA", "QuantileRegression"}

\* the operations of a class that forecast several steps ahead
AheadOps(class) ==
    IF class = "EnsembleFTS"
    THEN {"forecast_ahead_interval", "forecast_ahead_distribution"}
    ELSE {"forecast_ahead_distribution"}

\* the series a forecast starts from: at least order points
AheadData(ord) == UNION {[1..n -> AheadValues] : n \in ord..MaxAheadLen}

\* the start_at keyword: absent, or the first index
StartArgs == {<<>>, <<0>>}

\* the generators keyword of ClusteredMVFTS: absent, or a lambda for the
\* explanatory variable
GenArgs(class) == IF class = "ClusteredMVFTS" THEN {"none", "lambda"} ELSE {"none"}

\* the rows of a multivariate series: the explanatory variable x and the
\* target y
AsRows(d) == [i \in 1..Len(d) |-> [x |-> d[i], y |-> d[i]]]

InitAhead ==
    /\ CoreIdle
    /\ \E c \in AheadClasses, o \in AheadOrders, b \in BOOLEAN :
          obj = [class |-> c, order |-> o, max_lag |-> o,
                 original_min |-> 0, original_max |-> 10,
                 models |-> <<1>>, alpha |-> 5,
                 has_probability_forecasting |-> (c # "ClusteredMVFTS" \/ b),
                 dist |-> (c # "QuantileRegression" \/ b),
                 increment |-> 1]
    /\ frame = NoFrame
    /\ result = NoResult

\* forecast_ahead_interval or forecast_ahead_distribution is called
AheadCall(o, d, n, st, g) ==
    /\ frame.pc = "idle"
    /\ o \in AheadOps(obj.class)
    /\ g \in GenArgs(obj.class)
    /\ frame' = [pc |-> "seed", op |-> o, data |-> d, steps |-> n,
                 start_at |-> st, generators |-> g,
                 seed |-> <<>>, sample |-> <<>>, nmeans |-> <<>>,
                 k |-> 0, ret |-> <<>>, trace |-> <<>>]
    /\ result' = NoResult
    /\ UNCHANGED <<corevars, obj>>

\* ensemble.py lines 195-197, 256-260: start_at defaults to self.order
EnsembleSeed(e, d, st) ==
    LET start == IF st = <<>> THEN e.order ELSE st[1]
        part  == Slice(d, start, start + e.order)
    IN  [i \in 1..Len(part) |-> <<part[i]>>]

\* cmvfts.py lines 112-115: start_at defaults to 0
CMVSeed(e, d, st) ==
    LET start == IF st = <<>> THEN 0 ELSE st[1]
    IN  Slice(AsRows(d), start, start + e.max_lag)

\* the statements before the loop
AheadSeed ==
    /\ frame.pc = "seed"
    /\ CASE obj.class = "EnsembleFTS" ->
               /\ frame' = [frame EXCEPT
                       !.pc = "loop", !.k = obj.order,
                       !.seed = EnsembleSeed(obj, frame.data, frame.start_at),
                       !.sample = EnsembleSeed(obj, frame.data, frame.start_at)]
               /\ UNCHANGED result
         [] obj.class = "ClusteredMVFTS" ->
               IF frame.generators = "none"
               THEN /\ frame' = [frame EXCEPT !.pc = "returned"]
                    /\ result' = [kind |-> "raise", value |-> "Exception"]
               ELSE /\ frame' = [frame EXCEPT
                            !.pc = "loop", !.k = 0,
                            !.seed = CMVSeed(obj, frame.data, frame.start_at),
                            !.sample = CMVSeed(obj, frame.data, frame.start_at)]
                    /\ UNCHANGED result
         [] obj.class = "ARIMA" ->
               /\ frame' = [frame EXCEPT
                       !.pc = "loop", !.k = 0,
                       !.nmeans = forecast_ahead(frame.data, frame.steps,
                                                 obj.order, obj.increment)]
               /\ UNCHANGED result
         [] obj.class = "QuantileRegression" ->
               /\ frame' = [frame EXCEPT
                       !.pc = "loop", !.k = obj.order,
                       !.nmeans = Slice(frame.data, 0, obj.order)
                                    \o forecast_ahead(frame.data, frame.steps,
                                                      obj.order, obj.increment)]
               /\ UNCHANGED result
    /\ UNCHANGED <<corevars, obj>>

\* the loops: ensemble.py lines 199 and 262, quantreg.py line 152 run k from
\* order to steps + order - 1; cmvfts.py line 116, arima.py line 202 from 0
\* to steps - 1
InAheadRange(e, f) ==
    IF e.class \in {"EnsembleFTS", "QuantileRegression"}
    THEN f.k < f.steps + e.order
    ELSE f.k < f.steps

Raise(f, what) == [f EXCEPT !.pc = "returned"]

\* ensemble.py lines 200-217, 263-283: one iteration
EnsembleIteration(e, f) ==
    LET lags      == LastN(f.sample, e.order)
        forecasts == PathForecasts(e, lags)
        entry     == IF f.op = "forecast_ahead_interval"
                     THEN get_interval(e, forecasts)
                     ELSE [uod |-> get_UoD(e), data |-> forecasts]
    IN  [f EXCEPT !.sample = Append(@, sampler(forecasts)),
                  !.ret = Append(@, entry),
                  !.trace = Append(@, lags),
                  !.k = @ + 1]

\* cmvfts.py lines 117-140: one iteration; the internal model answers with a
\* distribution over the bounds, whose expected value is the one-step forecast
CMVIteration(e, f) ==
    LET tail  == LastN(f.sample, e.max_lag)
        tmp   == [uod |-> get_UoD(e),
                  expected_value |-> tail[Len(tail)].y + e.increment]
        point == [x |-> f.sample[Len(f.sample)].x + 1, y |-> tmp.expected_value]
    IN  [f EXCEPT !.sample = Append(@, point),
                  !.ret = Append(@, tmp),
                  !.trace = Append(@, tail),
                  !.k = @ + 1]

\* one iteration of the loop of the call
AheadLoop ==
    /\ frame.pc = "loop"
    /\ InAheadRange(obj, frame)
    /\ CASE obj.class = "EnsembleFTS" ->
               \* sample[i - self.order] of a sample shorter than order
               IF Len(frame.sample) < obj.order
               THEN /\ frame' = Raise(frame, "IndexError")
                    /\ result' = [kind |-> "raise", value |-> "IndexError"]
               ELSE /\ frame' = EnsembleIteration(obj, frame)
                    /\ UNCHANGED result
         [] obj.class = "ClusteredMVFTS" ->
               \* forecast_distribution of the wrapper, cmvfts.py lines 90-91
               IF ~obj.has_probability_forecasting
               THEN /\ frame' = Raise(frame, "Exception")
                    /\ result' = [kind |-> "raise", value |-> "Exception"]
               ELSE /\ frame' = CMVIteration(obj, frame)
                    /\ UNCHANGED result
         [] obj.class = "ARIMA" ->
               /\ frame' = [frame EXCEPT
                       !.ret = Append(@, [uod |-> get_UoD(obj),
                                          mean |-> frame.nmeans[frame.k + 1]]),
                       !.k = @ + 1]
               /\ UNCHANGED result
         [] obj.class = "QuantileRegression" ->
               \* for qt in self.dist_qt, which is None unless dist was set
               IF ~obj.dist
               THEN /\ frame' = Raise(frame, "TypeError")
                    /\ result' = [kind |-> "raise", value |-> "TypeError"]
               ELSE /\ frame' = [frame EXCEPT
                            !.ret = Append(@, [uod |-> get_UoD(obj),
                                               data |-> Slice(frame.nmeans,
                                                   frame.k - obj.order, frame.k)]),
                            !.k = @ + 1]
                    /\ UNCHANGED result
    /\ UNCHANGED <<corevars, obj>>

\* the loop is over: ret[-steps:] is returned (ret in quantreg.py line 168)
AheadEnd ==
    /\ frame.pc = "loop"
    /\ ~InAheadRange(obj, frame)
    /\ frame' = [frame EXCEPT !.pc = "returned"]
    /\ result' = [kind |-> "return",
                  value |-> IF obj.class = "QuantileRegression" THEN frame.ret
                            ELSE LastN(frame.ret, frame.steps)]
    /\ UNCHANGED <<corevars, obj>>

\* the caller has the result or the exception
AheadReturn ==
    /\ frame.pc = "returned"
    /\ frame' = NoFrame
    /\ result' = NoResult
    /\ UNCHANGED <<corevars, obj>>

NextAhead ==
    \/ \E o \in AheadOps(obj.class), d \in AheadData(obj.order), n \in 1..MaxSteps,
          st \in StartArgs, g \in GenArgs(obj.class) : AheadCall(o, d, n, st, g)
    \/ AheadSeed
    \/ AheadLoop
    \/ AheadEnd
    \/ AheadReturn

SpecAhead == InitAhead /\ [][NextAhead]_vars

\* the call in progress is configured as its class requires: generators and
\* a probabilistic internal model for ClusteredMVFTS, quantile parameters for
\* QuantileRegression
AheadConfigured ==
    /\ obj.class = "ClusteredMVFTS"
          => frame.generators # "none" /\ obj.has_probability_forecasting
    /\ obj.class = "QuantileRegression" => obj.dist

\* C15 (as claimed): forecast_ahead_distribution returns exactly steps
\* distributions, each over the bounds of the universe of discourse.
C15_AheadReturnsSteps ==
    /\ frame.pc = "returned"
    /\ frame.op = "forecast_ahead_distribution"
    /\ frame.start_at = <<>>
    /\ AheadConfigured
    => /\ result.kind = "return"
       /\ Len(result.value) = frame.steps
       /\ \A i \in 1..Len(result.value) :
             result.value[i].uod = <<obj.original_min, obj.original_max>>

\* the last order points of the input, as entries of the buffer of the class
ClaimedSeed ==
    IF obj.class = "EnsembleFTS"
    THEN [i \in 1..obj.order |-> <<LastN(frame.data, obj.order)[i]>>]
    ELSE LastN(AsRows(frame.data), obj.order)

\* C16 (as claimed): with default options the buffer of EnsembleFTS and of
\* ClusteredMVFTS is seeded with the last order points of the input, and the
\* j-th one-step forecast (j = 0, 1, ...) is made from the last order entries
\* of that seed followed by the j entries appended so far.
C16_SeedIsLastPoints ==
    /\ obj.class \in {"EnsembleFTS", "ClusteredMVFTS"}
    /\ frame.pc \in {"loop", "returned"}
    /\ frame.start_at = <<>>
    /\ AheadConfigured
    => /\ frame.seed = ClaimedSeed
       /\ \A j \in 1..Len(frame.trace) :
             frame.trace[j] =
                 LastN(ClaimedSeed \o SubSeq(frame.sample, Len(frame.seed) + 1,
                                             Len(frame.seed) + j - 1),
                       obj.order)

(***************************************************************************)
(* forecast_ahead_interval of ARIMA (arima.py lines 128-157) and of        *)
(* QuantileRegression (quantreg.py lines 98-118): the one-step interval of *)
(* step k, widened by k * smoothing.  Exact rationals.                     *)
(***************************************************************************)
MaxSmoothSteps == 3

SmoothValues == {-4, 2}

SmoothData == UNION {[1..n -> SmoothValues] : n \in 1..2}

\* the smoothing keyword: absent, or a value >= 0
SmoothArgs == {<<>>, <<RZero>>, <<Rat(1, 2)>>, <<ROne>>}

\* scipy.stats.norm.ppf at alpha percent, to three decimals
ppf(alpha) ==
    CASE alpha = 5  -> Rat(-1645, 1000)
      [] alpha = 25 -> Rat(-674, 1000)
      [] alpha = 75 -> Rat(674, 1000)
      [] alpha = 95 -> Rat(1645, 1000)

\* arima.py line 137 (default 0.5), quantreg.py line 100 (default 0.01)
smoothing_of(e, kw) ==
    IF kw # <<>> THEN kw[1]
    ELSE IF e.class = "ARIMA" THEN Rat(1, 2) ELSE Rat(1, 100)

\* quantreg.py lines 59-61: linearmodel
RECURSIVE linearmodel(_, _)
linearmodel(d, params) ==
    IF d = <<>> THEN RZero
    ELSE RAdd(RMul(RInt(Head(d)), Head(params)), linearmodel(Tail(d), Tail(params)))

\* quantreg.py lines 63-66: point_to_interval
point_to_interval(d, lo_params, up_params) ==
    <<linearmodel(d, lo_params), linearmodel(d, up_params)>>

\* arima.py lines 121-122: the one-step interval around a mean
ArimaInterval(e, mean) ==
    <<RAdd(RInt(mean), RMul(ppf(e.alpha), e.sigma)),
      RAdd(RInt(mean), RMul(ppf(100 - e.alpha), e.sigma))>>

\* arima.py lines 150-153: hsigma = (1 + k * smoothing) * sigma
ArimaSmoothed(e, mean, kk, sm) ==
    LET hsigma == RMul(RAdd(ROne, RMul(RInt(kk), sm)), e.sigma)
    IN  <<RAdd(RInt(mean), RMul(ppf(e.alpha), hsigma)),
          RAdd(RInt(mean), RMul(ppf(100 - e.alpha), hsigma))>>

\* quantreg.py line 116: both bounds scaled, down and up, by tmpk * smoothing
QuantSmoothed(intl, tmpk, sm) ==
    <<RMul(intl[1], RSub(ROne, RMul(RInt(tmpk), sm))),
      RMul(intl[2], RAdd(ROne, RMul(RInt(tmpk), sm)))>>

\* the fitted models: the standard deviation of the residuals and the level
\* of the interval for ARIMA, the parameters of the lower and of the upper
\* quantile for QuantileRegression
InitSmooth ==
    /\ CoreIdle
    /\ \/ \E sg \in {ROne, RInt(2)}, a \in {5, 25} :
             obj = [class |-> "ARIMA", order |-> 1, increment |-> 1,
                    sigma |-> sg, alpha |-> a]
       \/ \E qt \in {<<Rat(1, 2), Rat(3, 2)>>, <<Rat(3, 2), Rat(1, 2)>>} :
             obj = [class |-> "QuantileRegression", order |-> 1, increment |-> 1,
                    lower_qt |-> <<qt[1]>>, upper_qt |-> <<qt[2]>>]
    /\ frame = NoFrame
    /\ result = NoResult

\* forecast_ahead_interval(ndata, steps, smoothing=...) is called
SmoothCall(d, n, kw) ==
    /\ frame.pc = "idle"
    /\ frame' = [pc |-> "means", op |-> "forecast_ahead_interval", data |-> d,
                 steps |-> n, smoothing |-> smoothing_of(obj, kw),
                 nmeans |-> <<>>, k |-> 0, ret |-> <<>>, base |-> <<>>]
    /\ result' = NoResult
    /\ UNCHANGED <<corevars, obj>>

\* arima.py line 143; quantreg.py lines 106-109
SmoothMeans ==
    /\ frame.pc = "means"
    /\ LET ahead == forecast_ahead(frame.data, frame.steps, obj.order, obj.increment)
       IN  frame' = IF obj.class = "ARIMA"
                    THEN [frame EXCEPT !.pc = "loop", !.nmeans = ahead, !.k = 0]
                    ELSE [frame EXCEPT !.pc = "loop",
                                       !.nmeans = Slice(frame.data, 0, obj.order) \o ahead,
                                       !.k = obj.order]
    /\ UNCHANGED <<corevars, obj, result>>

InSmoothRange(e, f) ==
    IF e.class = "ARIMA" THEN f.k < f.steps ELSE f.k < f.steps + e.order

\* the step index the smoothing is proportional to: k in arima.py, k - order
\* in quantreg.py
StepIndex(e, f) == IF e.class = "ARIMA" THEN f.k ELSE f.k - e.order

\* the unsmoothed one-step interval of the iteration
BaseInterval(e, f) ==
    IF e.class = "ARIMA" THEN ArimaInterval(e, f.nmeans[f.k + 1])
    ELSE point_to_interval(Slice(f.nmeans, f.k - e.order, f.k),
                           e.lower_qt, e.upper_qt)

\* arima.py lines 147-155; quantreg.py lines 111-116: one iteration
SmoothLoop ==
    /\ frame.pc = "loop"
    /\ InSmoothRange(obj, frame)
    /\ LET entry == IF obj.class = "ARIMA"
                    THEN ArimaSmoothed(obj, frame.nmeans[frame.k + 1], frame.k,
                                       frame.smoothing)
                    ELSE QuantSmoothed(BaseInterval(obj, frame),
                                       StepIndex(obj, frame), frame.smoothing)
       IN  frame' = [frame EXCEPT !.ret = Append(@, entry),
                                  !.base = Append(@, BaseInterval(obj, frame)),
                                  !.k = @ + 1]
    /\ UNCHANGED <<corevars, obj, result>>

\* return ret[-steps:]
SmoothEnd ==
    /\ frame.pc = "loop"
    /\ ~InSmoothRange(obj, frame)
    /\ frame' = [frame EXCEPT !.pc = "returned"]
    /\ result' = [kind |-> "return", value |-> LastN(frame.ret, frame.steps)]
    /\ UNCHANGED <<corevars, obj>>

SmoothReturn ==
    /\ frame.pc = "returned"
    /\ frame' = NoFrame
    /\ result' = NoResult
    /\ UNCHANGED <<corevars, obj>>

NextSmooth ==
    \/ \E d \in SmoothData, n \in 1..MaxSmoothSteps, kw \in SmoothArgs :
          SmoothCall(d, n, kw)
    \/ SmoothMeans
    \/ SmoothLoop
    \/ SmoothEnd
    \/ SmoothReturn

SpecSmooth == InitSmooth /\ [][NextSmooth]_vars

\* the interval the class returns for the one-step interval intl (around
\* mean) at step index kk
SmoothedAt(intl, mean, kk) ==
    IF obj.class = "ARIMA" THEN ArimaSmoothed(obj, mean, kk, frame.smoothing)
    ELSE QuantSmoothed(intl, kk, frame.smoothing)

Width(intl) == RSub(intl[2], intl[1])

\* C17 (as claimed): the interval returned for step k holds the unsmoothed
\* one-step interval of that step, and for that one-step interval the width
\* does not decrease from step k to step k + 1.
C17_IntervalsWiden ==
    frame.pc \in {"loop", "returned"}
        => \A i \in 1..Len(frame.ret) :
              LET lo_up == frame.base[i]
                  mean  == IF obj.class = "ARIMA" THEN frame.nmeans[i] ELSE 0
              IN  RLe(lo_up[1], lo_up[2])
                    => /\ RLe(frame.ret[i][1], lo_up[1])
                       /\ RLe(lo_up[2], frame.ret[i][2])
                       /\ RLe(Width(SmoothedAt(lo_up, mean, i - 1)),
                              Width(SmoothedAt(lo_up, mean, i)))

(***************************************************************************)
(* Evolutionary.evaluate (Evolutionary.py lines 117-175): the sliding      *)
(* window evaluation of one individual.  The windows, the training, the    *)
(* prediction and Measures.rmse are collaborators: a window is given by    *)
(* the statement of the try block that raises in it, if any, and by the    *)
(* rmse and the model length it yields otherwise.                          *)
(***************************************************************************)
MaxWindows == 2

ErrValues == {2, 4}

LenValues == {3, 5}

\* the statement of lines 151-156 that raises in a window, or "none"
RaiseAt == {"phenotype", "predict", "rmse", "len"}

WindowOutcomes ==
    {[raises |-> at, rmse |-> 0, len |-> 0] : at \in RaiseAt}
        \cup {[raises |-> "none", rmse |-> e, len |-> l] : e \in ErrValues, l \in LenValues}

Windows == UNION {[1..n -> WindowOutcomes] : n \in 0..MaxWindows}

RInf == <<1, 0>>

Finite(x) == x[2] # 0

\* the integer square root, by bisection
RECURSIVE ISqrtIn(_, _, _)
ISqrtIn(n, lo, hi) ==
    IF lo >= hi THEN lo
    ELSE LET mid == (lo + hi + 1) \div 2
         IN  IF mid * mid <= n THEN ISqrtIn(n, mid, hi) ELSE ISqrtIn(n, lo, mid - 1)

\* np.sqrt of a rational >= 0, to three decimals
RSqrt(x) == Rat(ISqrtIn((x[1] * 1000000) \div x[2], 0, 1 + (x[1] * 1000) \div x[2]), 1000)

NonMissing(q) == SelectSeq(q, Finite)

\* a mean that counts a missing entry as zero
nanmean_zero(q) ==
    IF q = <<>> THEN RNaN
    ELSE RDiv(RSum(NonMissing(q)), RInt(Len(q)))

\* np.nanmean: the mean of the entries that are not nan, nan if there is none
nanmean(q) ==
    IF NonMissing(q) = <<>> THEN RNaN
    ELSE RDiv(RSum(NonMissing(q)), RInt(Len(NonMissing(q))))

\* np.nanstd: the population standard deviation of the entries that are not nan
nanstd(q) ==
    LET v == NonMissing(q)
        m == nanmean(q)
    IN  IF v = <<>> THEN RNaN
        ELSE RSqrt(RDiv(RSum([i \in 1..Len(v) |-> RMul(RSub(v[i], m), RSub(v[i], m))]),
                        RInt(Len(v))))

\* np.nansum: nan counts as zero
nansum(q) == RSum(NonMissing(q))

\* a product with a float factor: nan stays nan
RScale(c, x) == IF Finite(x) THEN RMul(c, x) ELSE x

SumInts(q) == IF q = <<>> THEN 0 ELSE RSum([i \in 1..Len(q) |-> RInt(q[i])])[1]

\* the individuals: the lags gene, and the fitness already known or None
LagGenes == {<<1>>, <<1, 2>>}

Individuals ==
    {[lags |-> l, f1 |-> <<>>, f2 |-> <<>>, rmse |-> <<>>, size |-> <<>>] : l \in LagGenes}
        \cup {[lags |-> l, f1 |-> <<RInt(2)>>, f2 |-> <<RInt(3)>>,
                rmse |-> <<RInt(2)>>, size |-> <<RInt(3)>>] : l \in LagGenes}

InitEval ==
    /\ CoreIdle
    /\ obj = [class |-> "evaluate"]
    /\ frame = NoFrame
    /\ result = NoResult

\* lines 135-145: evaluate(dataset, individual) is called on an individual
\* that has no fitness yet; ws are the windows sliding_window will yield
EvalCall(ind, ws) ==
    /\ frame.pc = "idle"
    /\ ~(ind.f1 # <<>> /\ ind.f2 # <<>>)
    /\ frame' = [pc |-> "windows", individual |-> ind, windows |-> ws, count |-> 0,
                 errors |-> <<>>, lengths |-> <<>>, model |-> <<>>]
    /\ result' = NoResult
    /\ UNCHANGED <<corevars, obj>>

\* lines 141-142: an individual with a known fitness is returned as it is
EvalKnown(ind) ==
    /\ frame.pc = "idle"
    /\ ind.f1 # <<>> /\ ind.f2 # <<>>
    /\ frame' = [pc |-> "returned", individual |-> ind, windows |-> <<>>, count |-> 0,
                 errors |-> <<>>, lengths |-> <<>>, model |-> <<>>]
    /\ result' = [kind |-> "return",
                  value |-> [f1 |-> ind.f1[1], f2 |-> ind.f2[1],
                             rmse |-> ind.rmse[1], size |-> ind.size[1]]]
    /\ UNCHANGED <<corevars, obj>>

\* lines 149-162: one window.  The name model is bound once phenotype has
\* returned; the two appends are the last statements of the try block, the
\* handler appends nan to both lists
EvalWindow ==
    /\ frame.pc = "windows"
    /\ frame.count < Len(frame.windows)
    /\ LET w     == frame.windows[frame.count + 1]
           bound == IF w.raises = "phenotype" THEN frame.model
                    ELSE <<[lags |-> frame.individual.lags]>>
       IN  frame' = IF w.raises = "none"
                    THEN [frame EXCEPT !.count = @ + 1, !.model = bound,
                                       !.lengths = Append(@, RInt(w.len)),
                                       !.errors = Append(@, RInt(w.rmse))]
                    ELSE [frame EXCEPT !.count = @ + 1, !.model = bound,
                                       !.lengths = Append(@, RNaN),
                                       !.errors = Append(@, RNaN)]
    /\ UNCHANGED <<corevars, obj, result>>

\* lines 164-175: the aggregate.  An unbound name model raises and the
\* handler returns the infinite fitness
EvalAggregate ==
    /\ frame.pc = "windows"
    /\ frame.count = Len(frame.windows)
    /\ frame' = [frame EXCEPT !.pc = "returned"]
    /\ result' =
          IF frame.model = <<>>
          THEN [kind |-> "return",
                value |-> [f1 |-> RInf, f2 |-> RInf, rmse |-> RInf, size |-> RInf]]
          ELSE LET lags == RInt(SumInts(frame.model[1].lags) * 100)
                   rmse == nanmean(frame.errors)
                   len  == nanmean(frame.lengths)
               IN  [kind |-> "return",
                    value |-> [f1 |-> nansum(<<RScale(Rat(6, 10), rmse),
                                               RScale(Rat(4, 10), nanstd(frame.errors))>>),
                               f2 |-> nansum(<<RScale(Rat(4, 10), len),
                                               RScale(Rat(6, 10), lags)>>),
                               rmse |-> rmse, size |-> len]]
    /\ UNCHANGED <<corevars, obj>>

EvalReturn ==
    /\ frame.pc = "returned"
    /\ frame' = NoFrame
    /\ result' = NoResult
    /\ UNCHANGED <<corevars, obj>>

NextEval ==
    \/ \E ind \in Individuals, ws \in Windows : EvalCall(ind, ws)
    \/ \E ind \in Individuals : EvalKnown(ind)
    \/ EvalWindow
    \/ EvalAggregate
    \/ EvalReturn

SpecEval == InitEval /\ [][NextEval]_vars

\* the windows among the first n that raised nothing
GoodWindows(n) == {i \in 1..n : frame.windows[i].raises = "none"}

RECURSIVE SumOver(_, _)
SumOver(S, what) ==
    IF S = {} THEN 0
    ELSE LET i == CHOOSE j \in S : TRUE
             x == IF what = "rmse" THEN frame.windows[i].rmse ELSE frame.windows[i].len
         IN  x + SumOver(S \ {i}, what)

RECURSIVE SquaresOver(_, _)
SquaresOver(S, m) ==
    IF S = {} THEN RZero
    ELSE LET i == CHOOSE j \in S : TRUE
             x == RSub(RInt(frame.windows[i].rmse), m)
         IN  RAdd(RMul(x, x), SquaresOver(S \ {i}, m))

\* C18: a window that raises adds nan to the error list and to the length
\* list, the windows after it are processed, the call returns, and with at
\* least one window that did not raise the fitness is that of the windows
\* that did not raise.
C18_WindowErrorsAreMissing ==
    frame.pc \in {"windows", "returned"} /\ frame.individual.f1 = <<>>
        => LET n    == frame.count
               good == GoodWindows(n)
           IN  /\ Len(frame.errors) = n /\ Len(frame.lengths) = n
               /\ \A i \in 1..n :
                     IF i \in good
                     THEN /\ frame.errors[i] = RInt(frame.windows[i].rmse)
                          /\ frame.lengths[i] = RInt(frame.windows[i].len)
                     ELSE frame.errors[i] = RNaN /\ frame.lengths[i] = RNaN
               /\ frame.pc = "returned"
                     => /\ n = Len(frame.windows)
                        /\ result.kind = "return"
                        /\ good # {}
                              => LET c    == RInt(Cardinality(good))
                                     mean == RDiv(RInt(SumOver(good, "rmse")), c)
                                     size == RDiv(RInt(SumOver(good, "len")), c)
                                     std  == RSqrt(RDiv(SquaresOver(good, mean), c))
                                     lags == RInt(100 * SumInts(frame.individual.lags))
                                 IN  /\ result.value.rmse = mean
                                     /\ result.value.size = size
                                     /\ result.value.f1
                                          = RAdd(RMul(Rat(6, 10), mean), RMul(Rat(4, 10), std))
                                     /\ result.value.f2
                                          = RAdd(RMul(Rat(4, 10), size), RMul(Rat(6, 10), lags))

\* a window raised, a later one did not, and the fitness was returned
C18_Witness ==
    /\ frame.pc = "returned"
    /\ Len(frame.windows) = 2
    /\ frame.windows[1].raises = "predict"
    /\ frame.windows[2].raises = "none"
    /\ frame.errors = <<RNaN, RInt(4)>>
    /\ result.kind = "return"
    /\ result.value.rmse = RInt(4)

(***************************************************************************)
(* Configuration values: the membership function of GridPartitioner.build  *)
(* (Grid.py lines 28-42) and the date part of strip_datepart               *)
(* (seasonal/common.py lines 39-94).                                       *)
(***************************************************************************)

\* seasonal/common.py lines 9-36: the names and the values of the enumeration
\* DateTime (second_of_minute is 60.00001, here 60 and a fraction)
DateTimeValue ==
    [year |-> <<1, 0>>, half |-> <<2, 0>>, third |-> <<3, 0>>, quarter |-> <<4, 0>>,
     sixth |-> <<6, 0>>, month |-> <<12, 0>>, day_of_month |-> <<30, 0>>,
     day_of_year |-> <<364, 0>>, day_of_week |-> <<7, 0>>, hour |-> <<24, 0>>,
     minute |-> <<60, 0>>, second |-> <<60, 0>>, hour_of_day |-> <<24, 0>>,
     hour_of_week |-> <<168, 0>>, hour_of_month |-> <<744, 0>>,
     hour_of_year |-> <<8736, 0>>, minute_of_hour |-> <<60, 0>>,
     minute_of_day |-> <<1440, 0>>, minute_of_week |-> <<10080, 0>>,
     minute_of_month |-> <<44640, 0>>, minute_of_year |-> <<524160, 0>>,
     second_of_minute |-> <<60, 1>>, second_of_hour |-> <<3600, 0>>,
     second_of_day |-> <<86400, 0>>]

DateTimeNames == DOMAIN DateTimeValue

\* the order of definition of the names
DateTimeOrder ==
    <<"year", "half", "third", "quarter", "sixth", "month", "day_of_month",
      "day_of_year", "day_of_week", "hour", "minute", "second", "hour_of_day",
      "hour_of_week", "hour_of_month", "hour_of_year", "minute_of_hour",
      "minute_of_day", "minute_of_week", "minute_of_month", "minute_of_year",
      "second_of_minute", "second_of_hour", "second_of_day">>

\* enum.Enum: a name whose value was defined before is an alias of the first
\* name with that value
Member(name) ==
    LET first == CHOOSE i \in 1..Len(DateTimeOrder) :
                    /\ DateTimeValue[DateTimeOrder[i]] = DateTimeValue[name]
                    /\ \A j \in 1..(i - 1) :
                          DateTimeValue[DateTimeOrder[j]] # DateTimeValue[name]
    IN  DateTimeOrder[first]

\* the arguments passed as date_part: the members of DateTime, and values
\* that are no member (a string, an integer, None)
DateParts ==
    {[type |-> "DateTime", value |-> Member(n)] : n \in DateTimeNames}
        \cup {[type |-> "str", value |-> "month"], [type |-> "int", value |-> "12"],
              [type |-> "NoneType", value |-> "None"]}

\* date_part == DateTime.<name>
IsPart(date_part, name) ==
    date_part.type = "DateTime" /\ date_part.value = Member(name)

\* datetime objects: 2019-02-28 (a Thursday) 23:59:58 and 2020-12-07 (a
\* Monday) 00:05:00
Dates ==
    {[year |-> 2019, month |-> 2, day |-> 28, tm_yday |-> 59, weekday |-> 3,
      hour |-> 23, minute |-> 59, second |-> 58],
     [year |-> 2020, month |-> 12, day |-> 7, tm_yday |-> 342, weekday |-> 0,
      hour |-> 0, minute |-> 5, second |-> 0]}

\* seasonal/common.py lines 39-94
strip_datepart(date, date_part) ==
    LET is(name) == IsPart(date_part, name)
        return(v) == [kind |-> "return", value |-> v]
    IN  CASE is("year") -> return(date.year)
          [] is("month") -> return(date.month)
          [] is("half") \/ is("third") \/ is("quarter") \/ is("sixth")
               -> return((date.month \div DateTimeValue[date_part.value][1]) + 1)
          [] is("day_of_year") -> return(date.tm_yday)
          [] is("day_of_month") -> return(date.day)
          [] is("day_of_week") -> return(date.weekday)
          [] is("hour") \/ is("hour_of_day") -> return(date.hour)
          [] is("hour_of_week") -> return(date.hour + (date.weekday - 1) * 24)
          [] is("hour_of_month") -> return(date.hour + (date.day - 1) * 24)
          [] is("hour_of_year") -> return(date.hour + (date.tm_yday - 1) * 24)
          [] is("minute") \/ is("minute_of_hour") -> return(date.minute)
          [] is("minute_of_day") -> return(date.minute + date.hour * 60)
          [] is("minute_of_week")
               -> return(date.minute + (date.weekday - 1) * 1440 + date.hour * 60)
          [] is("minute_of_month")
               -> return(date.minute + (date.day - 1) * 1440 + date.hour * 60)
          [] is("minute_of_year")
               -> return(date.minute + (date.tm_yday - 1) * 1440 + date.hour * 60)
          [] is("second") \/ is("second_of_minute") -> return(date.second)
          [] is("second_of_hour") -> return(date.second + date.minute * 60)
          [] is("second_of_day")
               -> return(date.second + date.hour * 3600 + date.minute * 60)
          [] OTHER -> [kind |-> "raise", value |-> "Exception"]

\* partitioners over [0, 4] and [0, 10] with two partitions and any
\* membership function
InitConfig ==
    /\ InitGrid
    /\ data_min = RZero
    /\ data_max \in {RInt(4), RInt(10)}
    /\ partitions = 2

\* strip_datepart(date, date_part) is called and returns or raises
StripCall(date, date_part) ==
    /\ frame.pc = "idle"
    /\ frame' = [pc |-> "returned", op |-> "strip_datepart", date |-> date,
                 date_part |-> date_part]
    /\ result' = strip_datepart(date, date_part)
    /\ UNCHANGED <<corevars, obj>>

StripReturn ==
    /\ frame.pc = "returned"
    /\ frame' = NoFrame
    /\ result' = NoResult
    /\ UNCHANGED <<corevars, obj>>

NextConfig ==
    \/ Build
    \/ \E date \in Dates, date_part \in DateParts : StripCall(date, date_part)
    \/ StripReturn

SpecConfig == InitConfig /\ [][NextConfig]_vars

\* C19 (as claimed): build does not return normally for a membership function
\* it does not know, and strip_datepart raises for a date part that is no
\* member of DateTime.
C19_UnknownConfigFailsFast ==
    /\ built => membership_function \in SupportedMF
    /\ frame.pc = "returned" /\ frame.date_part.type # "DateTime"
          => result.kind = "raise"

(***************************************************************************)
(* GeneticAlgorithm (Evolutionary.py lines 347-521) with the default       *)
(* operators double_tournament, crossover, mutation and elitism.           *)
(* Individuals are dicts, handled by reference: heap maps the identity of  *)
(* an individual to its fitness, population and new_population are lists   *)
(* of identities.  The genes only determine the fitness through the        *)
(* evaluation, whose outcome is any pair of FitnessValues; they are left   *)
(* out.  A fitness of None is <<>>, a value v is <<v>>.                     *)
(***************************************************************************)
MaxGenerations == 2

\* keyword mgen, its default (line 380)
mgen == 7

\* keyword npop (line 381)
NPop == 4

\* line 438: int(npop * psel), psel at its default .5
NSel == NPop \div 2

\* line 443: int(npop * pcross), keyword pcross = .25
NCross == NPop \div 4

\* the fitness an evaluation yields: two that tie on f1, and a worse one
FitnessValues ==
    {[f1 |-> <<1>>, f2 |-> <<1>>], [f1 |-> <<1>>, f2 |-> <<2>>],
     [f1 |-> <<2>>, f2 |-> <<2>>]}

\* lines 321-322, 272: an individual that has not been evaluated
Unevaluated == [f1 |-> <<>>, f2 |-> <<>>]

\* individual[objective]
Objective(h, id, objective) == IF objective = "f1" THEN h[id].f1[1] ELSE h[id].f2[1]

\* lines 178-191: tournament, r1 and r2 the two random indexes drawn
tournament(h, pop, objective, r1, r2) ==
    LET n  == Len(pop) - 1
        a  == IF n > 2 THEN r1 ELSE 0
        b  == IF n > 2 THEN r2 ELSE 1
        ix == IF Objective(h, pop[a + 1], objective) < Objective(h, pop[b + 1], objective)
              THEN a ELSE b
    IN  pop[ix + 1]

\* lines 194-207: double_tournament, r the four random indexes drawn
double_tournament(h, pop, r) ==
    LET ancestor1 == tournament(h, pop, "f1", r[1], r[2])
        ancestor2 == tournament(h, pop, "f1", r[3], r[4])
    IN  tournament(h, <<ancestor1, ancestor2>>, "f2", 0, 0)

\* sorted(population, key=itemgetter('f1')): a stable sort
RECURSIVE SortedByF1(_, _)
SortedByF1(h, pop) ==
    IF pop = <<>> THEN <<>>
    ELSE LET front == SortedByF1(h, SubSeq(pop, 1, Len(pop) - 1))
             x     == pop[Len(pop)]
             keep  == Cardinality({i \in 1..Len(front) : h[front[i]].f1[1] <= h[x].f1[1]})
         IN  SubSeq(front, 1, keep) \o <<x>> \o SubSeq(front, keep + 1, Len(front))

\* lines 327-344: elitism
elitism(h, population, new_population) ==
    LET best    == SortedByF1(h, population)[1]
        sorted  == SortedByF1(h, new_population)
        first   == sorted[1]
    IN  IF h[first].f1[1] > h[best].f1[1] THEN <<best>> \o sorted
        ELSE IF h[first].f1 = h[best].f1 /\ h[first].f2[1] > h[best].f2[1]
             THEN <<best>> \o sorted
             ELSE sorted

\* the identities of a list in the order of their first occurrence
RECURSIVE FirstOccurrences(_)
FirstOccurrences(pop) ==
    IF pop = <<>> THEN <<>>
    ELSE LET front == FirstOccurrences(SubSeq(pop, 1, Len(pop) - 1))
             x     == pop[Len(pop)]
         IN  IF \E i \in 1..Len(front) : front[i] = x THEN front ELSE Append(front, x)

\* the individuals a list still refers to, identities renumbered in the
\* order of the list; the others are garbage
Collect(h, pop) ==
    LET firsts == FirstOccurrences(pop)
        new(id) == CHOOSE i \in 1..Len(firsts) : firsts[i] = id
    IN  [heap |-> [i \in 1..Len(firsts) |-> h[firsts[i]]],
         population |-> [i \in 1..Len(pop) |-> new(pop[i])]]

\* lines 402-430: the initial population, evaluated
InitGA ==
    /\ CoreIdle
    /\ \E h \in [1..NPop -> FitnessValues] :
          obj = [class |-> "GeneticAlgorithm", heap |-> h,
                 population |-> [i \in 1..NPop |-> i],
                 new_population |-> <<>>,
                 best |-> 2, no_improvement_count |-> 0]
    /\ frame = [pc |-> "selection", i |-> 0, j |-> 0,
                previous |-> [p \in 1..NPop |-> obj.heap[p]], before |-> <<>>]
    /\ result = NoResult

\* lines 438-439: one selection
Selection(r) ==
    /\ frame.pc = "selection"
    /\ frame.i < MaxGenerations
    /\ ~(frame.i > 0 /\ frame.j = 0 /\ obj.no_improvement_count = mgen)
    /\ frame.j < NSel
    /\ obj' = [obj EXCEPT !.new_population =
                  Append(@, double_tournament(obj.heap, obj.population, r))]
    /\ frame' = [frame EXCEPT !.j = @ + 1]
    /\ UNCHANGED <<corevars, result>>

\* lines 442-446: the descendents, new individuals without a fitness
Crossover ==
    /\ frame.pc = "selection"
    /\ frame.i < MaxGenerations
    /\ frame.j = NSel
    /\ LET n == Len(obj.heap)
       IN  obj' = [obj EXCEPT !.heap = @ \o [c \in 1..NCross |-> Unevaluated],
                              !.new_population = @ \o [c \in 1..NCross |-> n + c]]
    /\ frame' = [frame EXCEPT !.pc = "mutation", !.j = 0]
    /\ UNCHANGED <<corevars, result>>

\* lines 449-452 and 304-324: the positions ct of M draw rnd < pmut; mutation
\* changes the individual it is handed and clears its fitness
Mutation(M) ==
    /\ frame.pc = "mutation"
    /\ LET mutated == {obj.new_population[ct] : ct \in M}
       IN  obj' = [obj EXCEPT !.heap = [id \in 1..Len(@) |->
                                          IF id \in mutated THEN Unevaluated ELSE @[id]]]
    /\ frame' = [frame EXCEPT !.pc = "evaluation", !.j = 0]
    /\ UNCHANGED <<corevars, result>>

\* lines 461-464 and 141-142: the evaluation of one individual; one that has a
\* fitness keeps it
Evaluation(fit) ==
    /\ frame.pc = "evaluation"
    /\ frame.j < Len(obj.new_population)
    /\ LET id == obj.new_population[frame.j + 1]
       IN  IF obj.heap[id].f1 # <<>> /\ obj.heap[id].f2 # <<>>
           THEN obj' = obj
           ELSE obj' = [obj EXCEPT !.heap[id] = fit]
    /\ frame' = [frame EXCEPT !.j = @ + 1]
    /\ UNCHANGED <<corevars, result>>

\* lines 492-519: elitism, the cut to npop, and the count of the generations
\* without improvement.  previous and before record the fitness the
\* population had when the generation started.
Elitism ==
    /\ frame.pc = "evaluation"
    /\ frame.j = Len(obj.new_population)
    /\ LET h         == obj.heap
           survivors == elitism(h, obj.population, obj.new_population)
           cut       == SubSeq(survivors, 1, IF Len(survivors) < NPop
                                             THEN Len(survivors) ELSE NPop)
           last_best == obj.best
           best      == cut[1]
           same      == /\ h[last_best].f1[1] <= h[best].f1[1]
                        /\ h[last_best].f2[1] <= h[best].f2[1]
           kept      == Collect(h, cut)
       IN  /\ obj' = [obj EXCEPT !.heap = kept.heap,
                                 !.population = kept.population,
                                 !.new_population = <<>>,
                                 !.best = 1,
                                 !.no_improvement_count = IF same THEN @ + 1 ELSE 0]
           /\ frame' = [frame EXCEPT !.pc = "selection", !.i = @ + 1, !.j = 0,
                                     !.before = frame.previous,
                                     !.previous = [p \in 1..Len(cut) |-> h[cut[p]]]]
    /\ UNCHANGED <<corevars, result>>

\* lines 432, 518-521: the last generation is over
GAReturn ==
    /\ frame.pc = "selection"
    /\ frame.j = 0
    /\ frame.i = MaxGenerations \/ (frame.i > 0 /\ obj.no_improvement_count = mgen)
    /\ frame' = [frame EXCEPT !.pc = "returned"]
    /\ result' = [kind |-> "return", value |-> obj.heap[obj.best]]
    /\ UNCHANGED <<corevars, obj>>

RandomIndexes == [1..4 -> 0..(NPop - 1)]

NextGA ==
    \/ \E r \in RandomIndexes : Selection(r)
    \/ Crossover
    \/ \E M \in SUBSET (1..(NSel + NCross)) : Mutation(M)
    \/ \E fit \in FitnessValues : Evaluation(fit)
    \/ Elitism
    \/ GAReturn

SpecGA == InitGA /\ [][NextGA]_vars

\* fitness a is no worse than fitness b: smaller f1, or the same f1 and no
\* greater f2
NoWorse(a, b) == a.f1[1] < b.f1[1] \/ (a.f1 = b.f1 /\ a.f2[1] <= b.f2[1])

\* C20 (as claimed): after a generation the first individual of the
\* population is no worse, by f1 and then f2, than every individual of the
\* population the generation started from.
C20_ElitismKeepsBest ==
    frame.pc = "selection" /\ frame.j = 0 /\ frame.i > 0
        => \A p \in 1..Len(frame.before) :
              NoWorse(obj.heap[obj.population[1]], frame.before[p])

\* C20, on f1 alone
C20_ElitismKeepsBestF1 ==
    frame.pc = "selection" /\ frame.j = 0 /\ frame.i > 0
        => \A p \in 1..Len(frame.before) :
              obj.heap[obj.population[1]].f1[1] <= frame.before[p].f1[1]

\* the fitness of the best individual of a population, as elitism picks it
BestOf(fits) ==
    LET first == CHOOSE p \in 1..Len(fits) :
                    /\ \A q \in 1..Len(fits) : fits[p].f1[1] <= fits[q].f1[1]
                    /\ \A q \in 1..(p - 1) : fits[q].f1[1] > fits[p].f1[1]
    IN  fits[first]

\* line 508, negated: the new best improves on the old one in f1 or in f2
Improves(new, old) == ~(old.f1[1] <= new.f1[1] /\ old.f2[1] <= new.f2[1])

\* C21 (as claimed): the loop runs at most ngen generations, it ends before
\* ngen only with mgen generations without improvement counted, and the
\* counter is 0 after a generation exactly when that generation improved the
\* best individual of the population it started from.
C21_StopsWithoutImprovement ==
    /\ frame.i <= MaxGenerations
    /\ obj.no_improvement_count <= frame.i
    /\ frame.pc = "returned"
          => frame.i = MaxGenerations \/ obj.no_improvement_count = mgen
    /\ frame.pc = "selection" /\ frame.j = 0 /\ frame.i > 0
          => (obj.no_improvement_count = 0
                <=> Improves(frame.previous[1], BestOf(frame.before)))

\* C21, from the second generation on: the best individual a generation
\* starts from is the first of its population
C21_StopsWithoutImprovementLater ==
    frame.pc = "selection" /\ frame.j = 0 /\ frame.i > 1
        => (obj.no_improvement_count = 0
              <=> Improves(frame.previous[1], frame.before[1]))

\* C22: across every step of training and every repeated train call no key
\* leaves the rule table, no element leaves a rule's RHS, the LHS stored
\* under a key keeps its length, and appending a name a rule already holds
\* leaves the rule as it is.
C22_AccumulationMonotonic ==
    /\ [][\A key \in DOMAIN flrgs :
             /\ key \in DOMAIN flrgs'
             /\ flrgs[key].RHS \subseteq flrgs'[key].RHS
             /\ Len(flrgs'[key].LHS) = Len(flrgs[key].LHS)]_vars
    /\ [](\A key \in DOMAIN flrgs :
             \A c \in flrgs[key].RHS : append_rhs(flrgs[key], c) = flrgs[key])

\* a second train call has extended a rule of the first and has appended to
\* a rule a name it already held
C22_Witness ==
    /\ trains = 2
    /\ pc = "train"
    /\ \E key \in DOMAIN flrgs0 :
          flrgs0[key].RHS # flrgs[key].RHS /\ flrgs0[key].RHS # {}
    /\ \E key \in DOMAIN flrgs0 \cap DOMAIN fresh :
          fresh[key].RHS \cap flrgs0[key].RHS # {}

\* the candidates of a value at time t, as a set
CandidateSet(v, t) ==
    IF Fuzzify(v, t) = {} THEN {check_bounds_index(v, t)} ELSE Fuzzify(v, t)

\* the candidate sets of the lags of training window kk (0-based)
WindowLagSets(kk) ==
    [o \in 1..order |->
        CandidateSet(RInt(data[kk - order + o]),
                     window_index(kk - (order - (o - 1)), WindowSize))]

\* every way of taking one candidate per lag
WindowProduct(kk) ==
    {p \in [1..order -> 1..Len(sets)] : \A o \in 1..order : p[o] \in WindowLagSets(kk)[o]}

\* C23: once training window k is processed, the LHS paths it enumerated are
\* the Cartesian product of the candidate lists of its lags, without
\* repetition (one path when every lag has one candidate), the key of every
\* path is in the rule table, and the rule under it holds every RHS candidate
\* of data[k].
C23_PathsFanOut ==
    pc = "train" /\ k > order
        => LET kk      == k - 1
               paths   == Paths(Lags(data, kk, order, 0, WindowSize))
               product == WindowProduct(kk)
               rhs     == CandidateSet(RInt(data[kk + 1]), window_index(kk, WindowSize))
           IN  /\ {paths[i] : i \in 1..Len(paths)} = product
               /\ Len(paths) = Cardinality(product)
               /\ (\A o \in 1..order : Cardinality(WindowLagSets(kk)[o]) = 1)
                     => Len(paths) = 1
               /\ \A p \in product :
                     /\ get_key(p) \in DOMAIN flrgs
                     /\ rhs \subseteq flrgs[get_key(p)].RHS

\* a window of order 2 with two candidates for one lag and two RHS candidates
C23_Witness ==
    /\ pc = "train"
    /\ k > order
    /\ order = 2
    /\ Cardinality(WindowProduct(k - 1)) >= 2
    /\ Cardinality(CandidateSet(RInt(data[k]), window_index(k - 1, WindowSize))) >= 2
    /\ \A p \in WindowProduct(k - 1) : get_key(p) \in DOMAIN flrgs

\* the candidates of forecast step kk whose key is not in the rule table
UnseenAt(kk) ==
    LET aff == AffectedFlrgs(data, kk, order, TimeDisplacement, WindowSize)
    IN  {i \in 1..Len(aff) : get_key(aff[i].LHS) \notin DOMAIN flrgs}

\* the rule table is the one training on the series being forecast leaves
TrainedOnData == flrgs = TrainAll(<<>>, data, order, order)

\* C24: when the series forecast is the series the model was trained on, every
\* candidate key of every step k < len(data) is in the rule table; a
\* candidate without a rule can occur at the last step only.
C24_InferenceMirrorsTraining ==
    pc \in {"forecast", "forecast_interval"} /\ TrainedOnData
        => \A i \in 1..Len(ret) :
              LET kk == order + i - 1
              IN  /\ kk < Len(data) => UnseenAt(kk) = {}
                  /\ UnseenAt(kk) # {} => kk = Len(data)

\* a forecast of the training series under drifting sets has run to its last
\* step, which has a candidate without a rule
C24_Witness ==
    /\ pc = "forecast"
    /\ TrainedOnData
    /\ flrgs # <<>>
    /\ drift # RZero
    /\ Len(ret) >= 2
    /\ order + Len(ret) - 1 = Len(data)
    /\ UnseenAt(Len(data)) # {}

\* the sets of positive membership of lag o (1-based) of forecast step kk
StepFuzzify(kk, o) ==
    Fuzzify(RInt(data[kk - order + o]),
            window_index((kk + TimeDisplacement) - (order - (o - 1)), WindowSize))

\* one lag of step kk lies in no set's support and another lies in several
OutsideAndAmbiguous(kk) ==
    /\ order >= 2
    /\ \E o \in 1..order : StepFuzzify(kk, o) = {}
    /\ \E o \in 1..order : Cardinality(StepFuzzify(kk, o)) > 1

\* C25: at a step of order >= 2 with one lag outside every support and
\* another lag in several sets, every candidate has joint membership 0, the
\* point forecast is 0 and the interval is [0, 0], whatever the rule table.
C25_OutsideLagForecastsZero ==
    pc \in {"forecast", "forecast_interval"}
        => \A i \in 1..Len(ret) :
              LET kk  == order + i - 1
                  aff == AffectedFlrgs(data, kk, order, TimeDisplacement, WindowSize)
              IN  OutsideAndAmbiguous(kk)
                    => /\ \A j \in 1..Len(aff) : aff[j].mv = RZero
                       /\ op = "forecast" => ret[i] = RZero
                       /\ op = "forecast_interval" => ret[i] = <<RZero, RZero>>

\* such a step of a point forecast over a table with a rule for one of its
\* candidates
C25_Witness ==
    /\ pc = "forecast"
    /\ ret # <<>>
    /\ OutsideAndAmbiguous(order + Len(ret) - 1)
    /\ ret[Len(ret)] = RZero
    /\ LET aff == AffectedFlrgs(data, order + Len(ret) - 1, order,
                                TimeDisplacement, WindowSize)
       IN  \E j \in 1..Len(aff) : get_key(aff[j].LHS) \in DOMAIN flrgs

\* lower <= point <= upper
Inside(point, interval) == RLe(interval[1], point) /\ RLe(point, interval[2])

\* C26: the point forecast of a step lies in the interval forecast_interval
\* returns for the same step of the same series: every entry of a forecast
\* lies in the interval of its step, and every entry of a forecast_interval
\* holds the point forecast of its step.
C26_PointInsideInterval ==
    pc \in {"forecast", "forecast_interval"}
        => \A i \in 1..Len(ret) :
              LET kk == order + i - 1
              IN  /\ op = "forecast"
                        => Inside(ret[i], ForecastIntervalStep(flrgs, data, kk, order,
                                                               TimeDisplacement, WindowSize))
                  /\ op = "forecast_interval"
                        => Inside(ForecastStep(flrgs, data, kk, order,
                                               TimeDisplacement, WindowSize), ret[i])

\* a step of a trained model with several candidates whose point forecast is
\* negative and strictly inside its interval
C26_Witness ==
    /\ pc = "forecast"
    /\ flrgs # <<>>
    /\ ret # <<>>
    /\ LET i    == Len(ret)
           kk   == order + i - 1
           aff  == AffectedFlrgs(data, kk, order, TimeDisplacement, WindowSize)
           intl == ForecastIntervalStep(flrgs, data, kk, order,
                                        TimeDisplacement, WindowSize)
       IN  /\ Len(aff) > 1
           /\ RLt(ret[i], RZero)
           /\ RLt(intl[1], ret[i])
           /\ RLt(ret[i], intl[2])

\* ---------------------------------------------------------------------------
\* EnsembleFTS (models/ensemble/ensemble.py): append_model and get_UoD
\* ---------------------------------------------------------------------------

\* the largest number of components appended to one ensemble
MaxModels == 2

\* the trained component models handed to append_model: their order, bounds
\* and flags
ComponentModels ==
    [order : {1, 2}, original_min : {-1, 1}, original_max : {1, 2},
     is_multivariate : BOOLEAN, has_seasonality : BOOLEAN]

\* ensemble.py lines 34-53: the ensemble after construction; order is the
\* order kwarg, the bounds are those the FTS base class starts with
InitEnsemble ==
    /\ CoreIdle
    /\ \E o \in {1, 2} :
          obj = [class |-> "EnsembleFTS", models |-> <<>>, order |-> o,
                 order0 |-> o,
                 original_min |-> 0, original_max |-> 0,
                 is_multivariate |-> FALSE, has_seasonality |-> FALSE]
    /\ frame = NoFrame
    /\ result = NoResult

\* ensemble.py lines 55-74
append_model(model) ==
    /\ obj.class = "EnsembleFTS"
    /\ Len(obj.models) < MaxModels
    /\ obj' = [obj EXCEPT
                 !.models = Append(@, model),
                 !.order = IF model.order > @ THEN model.order ELSE @,
                 !.is_multivariate = IF model.is_multivariate THEN TRUE ELSE @,
                 !.has_seasonality = IF model.has_seasonality THEN TRUE ELSE @,
                 !.original_min = IF model.original_min < @
                                  THEN model.original_min ELSE @,
                 !.original_max = IF model.original_min < obj.original_min THEN @
                                  ELSE IF model.original_max > @
                                       THEN model.original_max ELSE @]
    /\ result' = NoResult
    /\ UNCHANGED <<corevars, frame>>

\* a call of get_UoD (ensemble.py lines 77-78) on the ensemble
GetUoD ==
    /\ obj.class = "EnsembleFTS"
    /\ result' = [kind |-> "UoD", value |-> get_UoD(obj)]
    /\ UNCHANGED <<corevars, obj, frame>>

NextEnsemble ==
    \/ \E model \in ComponentModels : append_model(model)
    \/ GetUoD

SpecEnsemble == InitEnsemble /\ [][NextEnsemble]_vars

\* the largest of a start value and the values f takes on 1..Len(ms)
MaxOrder(o, ms) ==
    CHOOSE x \in {o} \cup {ms[i].order : i \in 1..Len(ms)} :
        \A y \in {o} \cup {ms[i].order : i \in 1..Len(ms)} : y <= x

\* the ensemble's order is the largest of its initial order and its
\* components' orders
OrderIsMax ==
    obj.class = "EnsembleFTS" => obj.order = MaxOrder(obj.order0, obj.models)

\* C27: the universe of discourse get_UoD returns contains the interval
\* [original_min, original_max] of every appended model and of the initial
\* bounds, and the order is the largest of the initial and component orders.
C27_UoDCoversModels ==
    (obj.class = "EnsembleFTS" /\ result.kind = "UoD")
        => /\ \A i \in 1..Len(obj.models) :
                 /\ result.value[1] <= obj.models[i].original_min
                 /\ obj.models[i].original_max <= result.value[2]
           /\ result.value[1] <= 0
           /\ 0 <= result.value[2]
           /\ OrderIsMax

\* ---------------------------------------------------------------------------
\* The one-step forecasts of QuantileRegression (quantreg.py lines 73-96,
\* 120-139) and EnsembleFTS (ensemble.py lines 149-184, 221-245): forecast,
\* forecast_interval and forecast_distribution over the same input.
\* ---------------------------------------------------------------------------

\* the longest input of a one-step forecast
MaxOneStepLen == 4

OneStepOps == {"forecast", "forecast_interval", "forecast_distribution"}

\* the inputs of length 1..MaxOneStepLen
OneStepData == UNION {[1..n -> AheadValues] : n \in 1..MaxOneStepLen}

\* the coefficients of a fitted regression of order o, all equal to c
Params(o, c) == [i \in 1..o |-> c]

\* quantreg.py lines 32-55: a regression trained with dist=True;
\* ensemble.py lines 34-53: an ensemble with one or two member models
InitOneStep ==
    /\ CoreIdle
    /\ \/ \E o \in AheadOrders :
             obj = [class |-> "QuantileRegression", order |-> o,
                    original_min |-> 0, original_max |-> 10,
                    mean_qt |-> Params(o, ROne),
                    lower_qt |-> Params(o, Rat(1, 2)),
                    upper_qt |-> Params(o, Rat(3, 2)),
                    dist_qt |-> << <<Params(o, Rat(1, 4)), Params(o, Rat(7, 4))>>,
                                   <<Params(o, Rat(3, 4)), Params(o, Rat(5, 4))>> >>]
       \/ \E o \in AheadOrders, ms \in {<<1>>, <<1, 3>>} :
             obj = [class |-> "EnsembleFTS", order |-> o, max_lag |-> o,
                    original_min |-> 0, original_max |-> 10,
                    models |-> ms, alpha |-> 5]
    /\ frame = NoFrame
    /\ result = NoResult

\* the end of np.arange(self.order, stop): quantreg.py lines 79, 92, 126;
\* ensemble.py lines 157, 176, 229
OneStepStop(class, o, l) ==
    IF o = "forecast" THEN l + 1
    ELSE IF o = "forecast_interval"
         THEN IF class = "QuantileRegression" THEN l ELSE l + 1
         ELSE IF class = "QuantileRegression" THEN l + 1 ELSE l

\* one of the three forecasts is called on an input of length n >= order
OneStepCall(o, d) ==
    /\ frame.pc = "idle"
    /\ Len(d) >= obj.order
    /\ frame' = [pc |-> "loop", op |-> o, ndata |-> d, k |-> obj.order,
                 stop |-> OneStepStop(obj.class, o, Len(d)), ret |-> <<>>]
    /\ result' = NoResult
    /\ UNCHANGED <<corevars, obj>>

\* the entry the iteration for k appends: quantreg.py lines 80-82, 93-94,
\* 127-137; ensemble.py lines 158-161, 177-182, 231-243
OneStepEntry(e, o, d, kk) ==
    IF e.class = "QuantileRegression"
    THEN LET sample == Slice(d, kk - e.order, kk)
         IN  IF o = "forecast" THEN linearmodel(sample, e.mean_qt)
             ELSE IF o = "forecast_interval"
                  THEN point_to_interval(sample, e.lower_qt, e.upper_qt)
                  ELSE [uod |-> get_UoD(e),
                        intervals |-> [q \in 1..Len(e.dist_qt) |->
                                         point_to_interval(sample, e.dist_qt[q][1],
                                                           e.dist_qt[q][2])]]
    ELSE IF o = "forecast"
         THEN LET tmp == get_models_forecasts(e, Slice(d, kk - e.max_lag, kk))
              IN  Rat(SumInts(tmp), Len(tmp))
         ELSE LET tmp == get_models_forecasts(e, Slice(d, kk - e.order, kk))
              IN  IF o = "forecast_interval" THEN get_interval(e, tmp)
                  ELSE [uod |-> get_UoD(e), data |-> tmp]

\* one iteration of the loop over k
OneStepLoop ==
    /\ frame.pc = "loop"
    /\ frame.k < frame.stop
    /\ frame' = [frame EXCEPT
                   !.ret = Append(@, OneStepEntry(obj, frame.op, frame.ndata, frame.k)),
                   !.k = @ + 1]
    /\ UNCHANGED <<corevars, obj, result>>

\* the loop is over: ret is returned
OneStepEnd ==
    /\ frame.pc = "loop"
    /\ frame.k >= frame.stop
    /\ result' = [kind |-> "return", value |-> frame.ret]
    /\ frame' = [frame EXCEPT !.pc = "returned"]
    /\ UNCHANGED <<corevars, obj>>

OneStepReturn ==
    /\ frame.pc = "returned"
    /\ frame' = NoFrame
    /\ result' = NoResult
    /\ UNCHANGED <<corevars, obj>>

NextOneStep ==
    \/ \E o \in OneStepOps, d \in OneStepData : OneStepCall(o, d)
    \/ OneStepLoop
    \/ OneStepEnd
    \/ OneStepReturn

SpecOneStep == InitOneStep /\ [][NextOneStep]_vars

\* a returned list has one entry per window of order values of its input
OneEntryPerWindow ==
    Len(result.value) = Len(frame.ndata) - obj.order + 1

\* C28: on an input of length n >= order, forecast_interval and
\* forecast_distribution of QuantileRegression and of EnsembleFTS return as
\* many entries as forecast does, n - order + 1.
C28_OneEntryPerForecast ==
    (frame.pc = "returned" /\ result.kind = "return") => OneEntryPerWindow

\* forecast of both classes, and forecast_interval of EnsembleFTS, return
\* n - order + 1 entries
C28_ForecastEntries ==
    (/\ frame.pc = "returned"
     /\ result.kind = "return"
     /\ \/ frame.op = "forecast"
        \/ frame.op = "forecast_interval" /\ obj.class = "EnsembleFTS"
        \/ frame.op = "forecast_distribution" /\ obj.class = "QuantileRegression")
        => OneEntryPerWindow

\* forecast_distribution of EnsembleFTS returns n - order + 1 entries
C28_EnsembleDistribution ==
    (/\ frame.pc = "returned"
     /\ result.kind = "return"
     /\ frame.op = "forecast_distribution"
     /\ obj.class = "EnsembleFTS")
        => OneEntryPerWindow

\* ---------------------------------------------------------------------------
\* ClusteredMVFTS.forecast_multivariate and forecast_ahead_multivariate
\* (cmvfts.py lines 144-195).  The wrapper, its partitioner and its internal
\* model are objects; self.model.partitioner is a reference to the wrapper's
\* partitioner (line 52).  A forecast is recorded by who made it and for
\* which target variable.
\* ---------------------------------------------------------------------------

\* the most calls of forecast_multivariate one forecast_ahead_multivariate makes
MaxMVSteps == 2

\* the variables of the model, by name and column
MVVariables == {[name |-> n, data_label |-> n] : n \in {"x", "y", "z"}}

\* the lists of distinct variables
VariableLists ==
    {q \in UNION {[1..n -> MVVariables] : n \in 1..3} :
        \A i, j \in 1..Len(q) : i # j => q[i] # q[j]}

\* the generators keyword: a lambda or a trained FTS model for some columns
MVGenerators ==
    UNION {[cols -> {"lambda", "fts"}] : cols \in SUBSET {"x", "y", "z"}}

\* ret[key] = value on a dict kept as the list of its items in insertion order
DictPut(d, key, value) ==
    IF \E i \in 1..Len(d) : d[i].key = key
    THEN [i \in 1..Len(d) |-> IF d[i].key = key
                               THEN [key |-> key, value |-> value] ELSE d[i]]
    ELSE Append(d, [key |-> key, value |-> value])

\* cmvfts.py lines 46-56: a trained wrapper; the target variable is one of
\* the explanatory variables
InitMV ==
    /\ CoreIdle
    /\ \E vs \in VariableLists, f \in BOOLEAN :
          \E t \in 1..Len(vs) :
             obj = [class |-> "ClusteredMVFTS",
                    target_variable |-> vs[t],
                    explanatory_variables |-> vs,
                    partitioner |-> [target_variable |-> vs[t]],
                    model |-> [partitioner |-> "self.partitioner",
                               calculated_values |-> TRUE],
                    pre_fuzzyfy |-> f]
    /\ frame = NoFrame
    /\ result = NoResult

\* self.model.forecast(ndata, fuzzyfied=self.pre_fuzzyfy, **kwargs): the
\* internal model forecasts the target variable of its partitioner
ModelForecast(o) ==
    [by |-> "model", target |-> o.partitioner.target_variable.name,
     fuzzyfied |-> o.pre_fuzzyfy]

\* forecast_multivariate(data, generators=gens) is called: lines 146-152
MVCall(gens) ==
    /\ frame.pc = "idle"
    /\ obj.class = "ClusteredMVFTS"
    /\ frame' = [pc |-> "target", op |-> "forecast_multivariate",
                 generators |-> gens, already_processed_cols |-> {},
                 ret |-> <<>>, i |-> 1, left |-> 1, obj0 |-> obj]
    /\ result' = NoResult
    /\ UNCHANGED <<corevars, obj>>

\* forecast_ahead_multivariate(data, steps, generators=gens) is called:
\* lines 184-188; it calls forecast_multivariate steps times (lines 190-193)
MVAheadCall(steps, gens) ==
    /\ frame.pc = "idle"
    /\ obj.class = "ClusteredMVFTS"
    /\ frame' = [pc |-> "target", op |-> "forecast_ahead_multivariate",
                 generators |-> gens, already_processed_cols |-> {},
                 ret |-> <<>>, i |-> 1, left |-> steps, obj0 |-> obj]
    /\ result' = NoResult
    /\ UNCHANGED <<corevars, obj>>

\* line 154: the forecast of the target variable
MVTarget ==
    /\ frame.pc = "target"
    /\ frame' = [frame EXCEPT
                   !.pc = "variables",
                   !.ret = DictPut(@, obj.target_variable.data_label, ModelForecast(obj))]
    /\ UNCHANGED <<corevars, obj, result>>

\* lines 156-178: one iteration of the loop over the explanatory variables
MVVariable ==
    /\ frame.pc = "variables"
    /\ frame.i <= Len(obj.explanatory_variables)
    /\ LET var == obj.explanatory_variables[frame.i]
           col == var.data_label
       IN  IF col \in frame.already_processed_cols
           THEN /\ frame' = [frame EXCEPT !.i = @ + 1]
                /\ obj' = obj
           ELSE IF col \in DOMAIN frame.generators
           THEN /\ frame' = [frame EXCEPT
                               !.i = @ + 1,
                               !.already_processed_cols = @ \cup {col},
                               !.ret = DictPut(@, col, [by |-> frame.generators[col],
                                                        target |-> var.name,
                                                        fuzzyfied |-> FALSE])]
                /\ obj' = obj
           ELSE IF obj.target_variable.name # var.name
           THEN LET changed == [obj EXCEPT
                                  !.target_variable = var,
                                  !.partitioner.target_variable = var,
                                  !.model.partitioner = "self.partitioner",
                                  !.model.calculated_values = FALSE]
                IN  /\ obj' = changed
                    /\ frame' = [frame EXCEPT
                                   !.i = @ + 1,
                                   !.already_processed_cols = @ \cup {col},
                                   !.ret = DictPut(@, col, ModelForecast(changed))]
           ELSE /\ frame' = [frame EXCEPT
                               !.i = @ + 1,
                               !.already_processed_cols = @ \cup {col}]
                /\ obj' = obj
    /\ UNCHANGED <<corevars, result>>

\* line 180: the data frame is returned; lines 190-193: the caller's loop
\* appends it and calls again while steps are left
MVEnd ==
    /\ frame.pc = "variables"
    /\ frame.i > Len(obj.explanatory_variables)
    /\ IF frame.left > 1
       THEN /\ frame' = [frame EXCEPT !.pc = "target", !.left = @ - 1, !.i = 1,
                                      !.already_processed_cols = {}, !.ret = <<>>]
            /\ UNCHANGED result
       ELSE /\ frame' = [frame EXCEPT !.pc = "returned"]
            /\ result' = [kind |-> "return", value |-> frame.ret]
    /\ UNCHANGED <<corevars, obj>>

MVReturn ==
    /\ frame.pc = "returned"
    /\ frame' = NoFrame
    /\ result' = NoResult
    /\ UNCHANGED <<corevars, obj>>

NextMV ==
    \/ \E gens \in MVGenerators : MVCall(gens)
    \/ \E steps \in 1..MaxMVSteps, gens \in MVGenerators : MVAheadCall(steps, gens)
    \/ MVTarget
    \/ MVVariable
    \/ MVEnd
    \/ MVReturn

SpecMV == InitMV /\ [][NextMV]_vars

\* the wrapper's target variable, its partitioner's target variable and the
\* internal model's partitioner are what they were when the call started
TargetKept ==
    /\ obj.target_variable = frame.obj0.target_variable
    /\ obj.partitioner = frame.obj0.partitioner
    /\ obj.model.partitioner = frame.obj0.model.partitioner

\* C29: forecast_multivariate is a read of the trained wrapper: after the
\* call the wrapper's target_variable, the partitioner's target variable and
\* the internal model's partitioner are the same as before the call, for any
\* explanatory variables and generators.
C29_ForecastMultivariateIsRead ==
    frame.pc = "returned" => TargetKept

\* with a generator for every explanatory variable but the target, the call
\* is a read
C29_ReadWithAllGenerators ==
    (/\ frame.pc = "returned"
     /\ \A i \in 1..Len(obj.explanatory_variables) :
           \/ obj.explanatory_variables[i].data_label \in DOMAIN frame.generators
           \/ obj.explanatory_variables[i] = frame.obj0.target_variable)
        => /\ TargetKept
           /\ obj = frame.obj0

\* ---------------------------------------------------------------------------
\* The calls of crossover by GeneticAlgorithm (Evolutionary.py lines 238-274,
\* 437-446) for every population size and every selection and crossover
\* probability.  Probabilities are quarters, which floats hold exactly; an
\* individual is its f1.
\* ---------------------------------------------------------------------------

\* the largest population
MaxNPop == 4

\* psel and pcross in (0, 1], in quarters
Quarters == {1, 2, 3, 4}

\* int(npop * p) for p = q / 4
IntOf(npop, q) == (npop * q) \div 4

\* lines 381-383, 404-406: GeneticAlgorithm starts a generation with npop
\* individuals and an empty new_population
InitCross ==
    /\ CoreIdle
    /\ \E npop \in 2..MaxNPop, psel \in Quarters, pcross \in Quarters :
          \E pop \in [1..npop -> {1, 2}] :
             obj = [class |-> "GeneticAlgorithm", npop |-> npop, psel |-> psel,
                    pcross |-> pcross, population |-> pop]
    /\ frame = [pc |-> "selection", j |-> 0, new_population |-> <<>>, new |-> <<>>]
    /\ result = NoResult

\* lines 438-439: one iteration of the selection loop; the operator returns
\* an individual of the population
CrossSelect(r) ==
    /\ frame.pc = "selection"
    /\ frame.j < IntOf(obj.npop, obj.psel)
    /\ frame' = [frame EXCEPT !.j = @ + 1,
                              !.new_population = Append(@, obj.population[r])]
    /\ UNCHANGED <<corevars, obj, result>>

\* the selection loop is over: lines 442-443
CrossSelected ==
    /\ frame.pc = "selection"
    /\ frame.j >= IntOf(obj.npop, obj.psel)
    /\ frame' = [frame EXCEPT !.pc = "crossover", !.j = 0]
    /\ UNCHANGED <<corevars, obj, result>>

\* line 444 and lines 247-249: crossover(new_population) is called;
\* n = len(population) - 1; r1, r2 = 0, 0
CrossCall ==
    /\ frame.pc = "crossover"
    /\ frame.j < IntOf(obj.npop, obj.pcross)
    /\ frame' = [pc |-> "draw", j |-> frame.j, new_population |-> frame.new_population,
                 new |-> frame.new, n |-> Len(frame.new_population) - 1,
                 r1 |-> 0, r2 |-> 0]
    /\ UNCHANGED <<corevars, obj, result>>

\* lines 250-252: one iteration of while r1 == r2; random.randint(0, n)
\* raises ValueError on an empty range
CrossDraw ==
    /\ frame.pc = "draw"
    /\ frame.r1 = frame.r2
    /\ IF frame.n < 0
       THEN /\ frame' = [frame EXCEPT !.pc = "returned"]
            /\ result' = [kind |-> "raise", value |-> "ValueError"]
       ELSE /\ \E a \in 0..frame.n, b \in 0..frame.n :
                  frame' = [frame EXCEPT !.r1 = a, !.r2 = b]
            /\ UNCHANGED result
    /\ UNCHANGED <<corevars, obj>>

\* lines 254-274: the loop has ended; the descendent of the better and the
\* worse parent is returned and appended to new (line 444)
CrossDescend ==
    /\ frame.pc = "draw"
    /\ frame.r1 # frame.r2
    /\ LET p1 == frame.new_population[frame.r1 + 1]
           p2 == frame.new_population[frame.r2 + 1]
           best  == IF p1 < p2 THEN p1 ELSE p2
           worst == IF p1 < p2 THEN p2 ELSE p1
       IN  frame' = [pc |-> "crossover", j |-> frame.j + 1,
                     new_population |-> frame.new_population,
                     new |-> Append(frame.new, [best |-> best, worst |-> worst])]
    /\ UNCHANGED <<corevars, obj, result>>

\* line 446: the crossover loop is over, new_population.extend(new)
CrossExtend ==
    /\ frame.pc = "crossover"
    /\ frame.j >= IntOf(obj.npop, obj.pcross)
    /\ frame' = [frame EXCEPT !.pc = "returned"]
    /\ result' = [kind |-> "return",
                  value |-> Len(frame.new_population) + Len(frame.new)]
    /\ UNCHANGED <<corevars, obj>>

NextCross ==
    \/ \E r \in 1..MaxNPop : r <= obj.npop /\ CrossSelect(r)
    \/ CrossSelected
    \/ CrossCall
    \/ CrossDraw
    \/ CrossDescend
    \/ CrossExtend

SpecCross == InitCross /\ [][NextCross]_vars

\* C30: every call of crossover by GeneticAlgorithm is handed at least two
\* individuals, for any npop >= 2 and psel, pcross in (0, 1], so that two
\* distinct indices r1 != r2 exist and the loop drawing them can exit.
C30_CrossoverGetsTwo ==
    frame.pc = "draw" => frame.n >= 1

\* crossover is called with one individual: every draw is r1 = r2 = 0
C30_Stuck ==
    /\ frame.pc = "draw"
    /\ frame.n = 0

\* with at least two selected individuals (int(npop * psel) >= 2) crossover
\* is handed at least two
C30_TwoSelected ==
    (frame.pc = "draw" /\ IntOf(obj.npop, obj.psel) >= 2) => frame.n >= 1
====
